---- MODULE Spec2Model ----
(***************************************************************************)
(* State-machine model of the Wayland protocol and input core of mutter:   *)
(*   - the surface state machine (attach / damage / regions / frame /      *)
(*     commit) of meta-wayland-surface.c (src/unnamed/part_000),           *)
(*   - the pointer focus and grab router of meta-wayland-pointer.c,        *)
(*   - the native input translator of meta-seat-native.c.                  *)
(* Each part has its own next-state relation and specification; the        *)
(* variables of the other parts are left unchanged by it.                  *)
(***************************************************************************)
EXTENDS Integers, Sequences, FiniteSets, TLC

\* ------------------------------------------------------------------------
\* Values
\* ------------------------------------------------------------------------

NULL == "NULL"

\* wl_buffer objects a client can attach, with the size of their texture
Buffers == {"bufA", "bufB"}

BufferWidth(b) == IF b = "bufA" THEN 1 ELSE 2

BufferHeight(b) == 1

\* attach offsets dx, dy
Offsets == {0, 1}

\* A cairo region is the set of unit cells it covers; a rectangle
\* { x, 0, w, 1 } covers the cells x .. x+w-1 of row 0.
RectCells(x, w) == { <<i, 0>> : i \in x .. (x + w - 1) }

\* damage rectangles as <<x, width>>: an empty one and a unit cell
DamageRects == { <<0, 0>>, <<0, 1>> }

\* object ids a client can give to its wl_callback objects
CallbackIds == {"cb1", "cb2", "cb3"}

\* Region arguments of set_opaque_region / set_input_region: no region
\* resource (the empty option {}) or a copy of a wl_region's region.
NoRegion == {}

RegionArgs == { NoRegion, {RectCells(0, 1)} }

VARIABLES
  pending,           \* surface->pending (MetaWaylandDoubleBufferedState)
  buffer_ref,        \* surface->buffer_ref.buffer, the bound buffer
  window,            \* surface->window: NULL or "window"
  window_rect,       \* surface->window->rect as <<width, height>>
  xdg_surface,       \* surface->xdg_surface.resource != NULL
  subsurface,        \* surface->subsurface.resource != NULL
  sprite,            \* surface == compositor->seat->sprite
  actor,             \* what the surface actor (renderer) currently holds
  frame_callbacks,   \* compositor->frame_callbacks
  out,               \* collaborator calls made by the last request
  last,              \* the last request or call and its return value
  pointer,           \* the seat's MetaWaylandPointer
  grabs,             \* the heap of MetaWaylandPointerGrab objects
  alive,             \* the surfaces whose wl_surface resource exists
  listeners,         \* per surface, the pointer's destroy listeners on it
  sent,              \* protocol messages sent by the last call
  aborted,           \* "no", or the assertion that stopped the compositor
  button_count,      \* seat->button_count, per evdev code
  button_state,      \* seat->button_state, the button modifier masks
  repeat,            \* the key repeat fields of the seat
  stage,             \* per device, whether a stage is associated with it
  events,            \* the events queued by the last call
  run,               \* the observed run of presses and releases of a code
  accum,             \* seat->accum_scroll_dx and seat->accum_scroll_dy
  scroll,            \* per axis, the scroll reports since the last zero
  pointer_x,         \* seat->pointer_x
  pointer_y,         \* seat->pointer_y
  touch_states,      \* seat->touch_states, per seat slot the touch held there
  n_alloc_touch_states, \* seat->n_alloc_touch_states
  touch_heap,        \* per touch state address, the MetaTouchState stored there
  role,              \* per surface, its window and its role extensions
  display_serial,    \* the display's serial counter, where it is followed
  focus_serial,      \* pointer->focus_serial, where serials are followed
  serials            \* per message of sent, its serial (0: it has none)

surfaceVars == <<pending, buffer_ref, window, window_rect, xdg_surface,
                 subsurface, sprite, actor, frame_callbacks, out>>

pointerVars == <<pointer, grabs, alive, listeners, sent, aborted,
                 display_serial, focus_serial, serials>>

seatVars == <<button_count, button_state, repeat, stage, events, run, accum,
              scroll, pointer_x, pointer_y>>

touchVars == <<touch_states, n_alloc_touch_states, touch_heap>>

roleVars == <<role>>

vars == <<surfaceVars, pointerVars, seatVars, touchVars, roleVars, last>>

\* No collaborator call
NoOut == [attach |-> "-", release |-> "-", damage |-> {}, opaque |-> NoRegion,
          input |-> NoRegion, mapped |-> "-", resize |-> <<>>,
          shown |-> "-", moved |-> <<>>, sprite |-> FALSE,
          error |-> FALSE]

\* meta_wayland_surface_create: the pending state of a new surface
InitPending == [newly_attached |-> FALSE, buffer |-> NULL, dx |-> 0, dy |-> 0,
                damage |-> {}, opaque_region |-> NoRegion,
                input_region |-> NoRegion, frame_callback_list |-> <<>>,
                buffer_destroy_listener |-> {}]

SurfaceInit ==
  /\ pending = InitPending
  /\ buffer_ref = NULL
  /\ window = NULL
  /\ window_rect = <<0, 0>>
  /\ xdg_surface = FALSE
  /\ subsurface = FALSE
  /\ sprite = FALSE
  /\ actor = [buffer |-> NULL, opaque_region |-> NoRegion,
              input_region |-> NoRegion]
  /\ frame_callbacks = <<>>
  /\ out = NoOut

Called(op, ret) == [op |-> op, ret |-> ret]

\* ------------------------------------------------------------------------
\* wl_surface requests
\* ------------------------------------------------------------------------

\* (mutant) an attach that leaves the listener on the replaced buffer
ListenerAfterAttach_NoRemove(p, buffer) ==
  p.buffer_destroy_listener \cup (IF buffer # NULL THEN {buffer} ELSE {})

\* pending.buffer_destroy_listener, as the set of the buffers whose
\* destroy_signal holds it: wl_list_remove when there is a pending buffer,
\* wl_signal_add on the new buffer when there is one
ListenerAfterAttach(p, buffer) ==
  (IF p.buffer # NULL THEN {} ELSE p.buffer_destroy_listener)
    \cup (IF buffer # NULL THEN {buffer} ELSE {})

\* wl_surface.attach
meta_wayland_surface_attach ==
  \E buffer \in Buffers \cup {NULL}, dx \in Offsets, dy \in Offsets :
    /\ pending' = [pending EXCEPT !.dx = dx, !.dy = dy, !.buffer = buffer,
                                  !.newly_attached = TRUE,
                                  !.buffer_destroy_listener =
                                     ListenerAfterAttach(pending, buffer)]
    /\ out' = NoOut
    /\ last' = Called("attach", <<buffer, dx, dy>>)
    /\ UNCHANGED <<buffer_ref, window, window_rect, xdg_surface, subsurface,
                   sprite, actor, frame_callbacks, pointerVars, seatVars, touchVars, roleVars>>

\* wl_surface.damage: cairo_region_union_rectangle
meta_wayland_surface_damage ==
  \E rect \in DamageRects :
    /\ pending' = [pending EXCEPT
                     !.damage = @ \cup RectCells(rect[1], rect[2])]
    /\ out' = NoOut
    /\ last' = Called("request", NULL)
    /\ UNCHANGED <<buffer_ref, window, window_rect, xdg_surface, subsurface,
                   sprite, actor, frame_callbacks, pointerVars, seatVars, touchVars, roleVars>>

Range(seq) == { seq[i] : i \in 1 .. Len(seq) }

Without(seq, x) == SelectSeq(seq, LAMBDA y : y # x)

\* The wl_callback resources that exist: each is on one of the two lists
LiveCallbacks == Range(pending.frame_callback_list) \cup Range(frame_callbacks)

\* wl_surface.frame: a new callback, of an id that is free, is appended to
\* the pending list
meta_wayland_surface_frame ==
  \E callback_id \in CallbackIds \ LiveCallbacks :
    /\ pending' = [pending EXCEPT
                     !.frame_callback_list = Append(@, callback_id)]
    /\ out' = NoOut
    /\ last' = Called("request", NULL)
    /\ UNCHANGED <<buffer_ref, window, window_rect, xdg_surface, subsurface,
                   sprite, actor, frame_callbacks, pointerVars, seatVars, touchVars, roleVars>>

\* destroy_frame_callback: the destructor of a wl_callback resource unlinks
\* the callback from the list it is on
destroy_frame_callback ==
  \E callback \in LiveCallbacks :
    /\ pending' = [pending EXCEPT
                     !.frame_callback_list = Without(@, callback)]
    /\ frame_callbacks' = Without(frame_callbacks, callback)
    /\ out' = NoOut
    /\ last' = Called("request", NULL)
    /\ UNCHANGED <<buffer_ref, window, window_rect, xdg_surface, subsurface,
                   sprite, actor, pointerVars, seatVars, touchVars, roleVars>>

\* wl_surface.set_opaque_region
meta_wayland_surface_set_opaque_region ==
  \E region \in RegionArgs :
    /\ pending' = [pending EXCEPT !.opaque_region = region]
    /\ out' = NoOut
    /\ last' = Called("request", NULL)
    /\ UNCHANGED <<buffer_ref, window, window_rect, xdg_surface, subsurface,
                   sprite, actor, frame_callbacks, pointerVars, seatVars, touchVars, roleVars>>

\* wl_surface.set_input_region
meta_wayland_surface_set_input_region ==
  \E region \in RegionArgs :
    /\ pending' = [pending EXCEPT !.input_region = region]
    /\ out' = NoOut
    /\ last' = Called("request", NULL)
    /\ UNCHANGED <<buffer_ref, window, window_rect, xdg_surface, subsurface,
                   sprite, actor, frame_callbacks, pointerVars, seatVars, touchVars, roleVars>>

\* ------------------------------------------------------------------------
\* wl_surface.commit
\* ------------------------------------------------------------------------

\* (mutant) every attach since the last commit counts as a change of buffer
BufferChanges_AnyAttach == pending.newly_attached

\* The test of cursor_surface_commit and actor_surface_commit: a buffer was
\* attached since the last commit and it is not the bound one.
BufferChanges == pending.newly_attached /\ pending.buffer # buffer_ref

\* meta_wayland_buffer_reference (meta-wayland.c): the reference takes the
\* buffer; the buffer it held before loses its last user and is released
meta_wayland_buffer_reference(ref, buffer) ==
  [buffer  |-> buffer,
   release |-> IF ref # NULL /\ buffer # ref THEN ref ELSE "-"]

\* cursor_surface_commit: rebinds the buffer and updates the sprite
cursor_surface_commit ==
  LET ref == meta_wayland_buffer_reference(buffer_ref, pending.buffer)
  IN [buffer_ref  |-> IF BufferChanges THEN ref.buffer ELSE buffer_ref,
      actor       |-> actor,
      window_rect |-> window_rect,
      out         |-> [NoOut EXCEPT
                         !.sprite = TRUE,
                         !.release = IF BufferChanges THEN ref.release
                                                      ELSE "-"]]

\* actor_surface_commit: attach, damage and regions go to the surface actor;
\* .changed is its return value
actor_surface_commit ==
  [changed     |-> BufferChanges,
   buffer_ref  |-> IF BufferChanges
                     THEN meta_wayland_buffer_reference(buffer_ref,
                                                        pending.buffer).buffer
                     ELSE buffer_ref,
   actor       |-> [buffer |-> IF BufferChanges THEN pending.buffer
                                                ELSE actor.buffer,
                    opaque_region |-> IF pending.opaque_region # NoRegion
                                        THEN pending.opaque_region
                                        ELSE actor.opaque_region,
                    input_region  |-> IF pending.input_region # NoRegion
                                        THEN pending.input_region
                                        ELSE actor.input_region],
   out         |-> [NoOut EXCEPT
                      !.attach = IF BufferChanges THEN pending.buffer ELSE "-",
                      !.release = IF BufferChanges
                                    THEN meta_wayland_buffer_reference(
                                           buffer_ref, pending.buffer).release
                                    ELSE "-",
                      !.damage = pending.damage,
                      !.opaque = pending.opaque_region,
                      !.input  = pending.input_region]]

\* meta_window_move_resize_wayland (window.c): the window takes the size
meta_window_move_resize_wayland(width, height) == <<width, height>>

\* The resize test of toplevel_surface_commit, made after the buffer of
\* actor_surface_commit was bound
ResizeWanted(new_width, new_height) ==
  \/ new_width # window_rect[1]
  \/ new_height # window_rect[2]
  \/ pending.dx # 0
  \/ pending.dy # 0

\* toplevel_surface_commit (every window of the model is a Wayland client's)
toplevel_surface_commit ==
  LET a == actor_surface_commit
      buffer == pending.buffer
      resize == /\ a.changed
                /\ buffer # NULL
                /\ ResizeWanted(BufferWidth(a.buffer_ref),
                                BufferHeight(a.buffer_ref))
  IN [buffer_ref  |-> a.buffer_ref,
      actor       |-> a.actor,
      window_rect |-> IF resize
                        THEN meta_window_move_resize_wayland(
                               BufferWidth(a.buffer_ref),
                               BufferHeight(a.buffer_ref))
                        ELSE window_rect,
      out         |-> [a.out EXCEPT
                         !.mapped = IF ~a.changed THEN "-"
                                    ELSE IF buffer # NULL THEN "yes" ELSE "no",
                         !.resize = IF resize
                                      THEN <<BufferWidth(a.buffer_ref),
                                             BufferHeight(a.buffer_ref),
                                             pending.dx, pending.dy>>
                                      ELSE <<>>]]

\* subsurface_surface_commit: show or hide the actor and move it by dx, dy
subsurface_surface_commit ==
  LET a == actor_surface_commit
  IN [buffer_ref  |-> a.buffer_ref,
      actor       |-> a.actor,
      window_rect |-> window_rect,
      out         |-> [a.out EXCEPT
                         !.shown = IF ~a.changed THEN "-"
                                   ELSE IF pending.buffer # NULL THEN "yes"
                                   ELSE "no",
                         !.moved = IF a.changed
                                     THEN <<pending.dx, pending.dy>>
                                     ELSE <<>>]]

\* (mutant) a commit that hands a surface without role to the actor
RoleCommit_ActorWithoutRole ==
  IF sprite THEN cursor_surface_commit
  ELSE IF window # NULL THEN toplevel_surface_commit
  ELSE subsurface_surface_commit

\* The role dispatch of meta_wayland_surface_commit
RoleCommit ==
  IF sprite THEN cursor_surface_commit
  ELSE IF window # NULL THEN toplevel_surface_commit
  ELSE IF subsurface THEN subsurface_surface_commit
  ELSE [buffer_ref |-> buffer_ref, actor |-> actor,
        window_rect |-> window_rect, out |-> NoOut]

\* (mutant) a commit that forgets to empty the pending damage
PendingAfterCommit_KeepsDamage(p) ==
  [p EXCEPT !.buffer = NULL, !.dx = 0, !.dy = 0, !.newly_attached = FALSE,
            !.buffer_destroy_listener = IF p.buffer # NULL THEN {} ELSE @,
            !.opaque_region = NoRegion, !.input_region = NoRegion,
            !.frame_callback_list = <<>>]

\* (mutant) a commit that leaves the pending regions alone
PendingAfterCommit_KeepsRegions(p) ==
  [p EXCEPT !.buffer = NULL, !.dx = 0, !.dy = 0, !.newly_attached = FALSE,
            !.buffer_destroy_listener = IF p.buffer # NULL THEN {} ELSE @,
            !.damage = {}, !.frame_callback_list = <<>>]

\* The reset of the pending state that ends meta_wayland_surface_commit
PendingAfterCommit(p) ==
  [p EXCEPT !.buffer = NULL, !.dx = 0, !.dy = 0, !.newly_attached = FALSE,
            !.buffer_destroy_listener = IF p.buffer # NULL THEN {} ELSE @,
            !.opaque_region = NoRegion, !.input_region = NoRegion,
            !.damage = {}, !.frame_callback_list = <<>>]

\* (mutant) a commit that puts the pending callbacks one by one at the head
FrameCallbacksAfterCommit_OneByOne(list, pending_list) ==
  [i \in 1 .. Len(pending_list) |->
     pending_list[Len(pending_list) + 1 - i]] \o list

\* wl_list_insert_list (&compositor->frame_callbacks, pending list):
\* the pending callbacks go to the head of the compositor's list
FrameCallbacksAfterCommit(list, pending_list) == pending_list \o list

meta_wayland_surface_commit ==
  LET r == RoleCommit
  IN /\ buffer_ref' = r.buffer_ref
     /\ actor' = r.actor
     /\ window_rect' = r.window_rect
     /\ out' = r.out
     /\ pending' = PendingAfterCommit(pending)
     /\ frame_callbacks' = FrameCallbacksAfterCommit(frame_callbacks,
                                          pending.frame_callback_list)
     /\ last' = Called("commit", NULL)
     /\ UNCHANGED <<window, xdg_surface, subsurface, sprite, pointerVars, seatVars, touchVars, roleVars>>

\* ------------------------------------------------------------------------
\* Roles
\* ------------------------------------------------------------------------

\* create_surface_extension: FALSE when the extension already has a resource
create_surface_extension(extension_resource) == ~extension_resource

\* xdg_shell.get_xdg_surface
get_xdg_surface ==
  /\ IF create_surface_extension(xdg_surface)
       THEN /\ xdg_surface' = TRUE
            /\ window' = "window"
            /\ window_rect' = <<0, 0>>
            /\ out' = NoOut
       ELSE /\ out' = [NoOut EXCEPT !.error = TRUE]
            /\ UNCHANGED <<xdg_surface, window, window_rect>>
  /\ last' = Called("request", NULL)
  /\ UNCHANGED <<pending, buffer_ref, subsurface, sprite, actor,
                 frame_callbacks, pointerVars, seatVars, touchVars, roleVars>>

\* wl_subcompositor.get_subsurface
wl_subcompositor_get_subsurface ==
  /\ IF create_surface_extension(subsurface)
       THEN /\ subsurface' = TRUE
            /\ out' = NoOut
       ELSE /\ subsurface' = subsurface
            /\ out' = [NoOut EXCEPT !.error = TRUE]
  /\ last' = Called("request", NULL)
  /\ UNCHANGED <<pending, buffer_ref, window, window_rect, xdg_surface,
                 sprite, actor, frame_callbacks, pointerVars, seatVars, touchVars, roleVars>>

\* wl_pointer.set_cursor: the surface becomes, or stops being, the sprite
pointer_set_cursor ==
  /\ sprite' = ~sprite
  /\ out' = NoOut
  /\ last' = Called("request", NULL)
  /\ UNCHANGED <<pending, buffer_ref, window, window_rect, xdg_surface,
                 subsurface, actor, frame_callbacks, pointerVars, seatVars, touchVars, roleVars>>

\* ------------------------------------------------------------------------
\* Destruction of a wl_buffer
\* ------------------------------------------------------------------------

\* (mutant) a handler that keeps the pending buffer
surface_handle_pending_buffer_destroy_Keeps(p) == p

\* surface_handle_pending_buffer_destroy: the listener of the pending state
surface_handle_pending_buffer_destroy(p) == [p EXCEPT !.buffer = NULL]

\* The destroy_signal of a buffer is emitted and the buffer is freed, its
\* listener list with it: the pending state and the bound reference of the
\* surface each drop the buffer when their listener is on it. A buffer
\* created afterwards may have the name of the destroyed one.
meta_wayland_buffer_destroy ==
  \E buffer \in Buffers :
    /\ pending' =
         [(IF buffer \in pending.buffer_destroy_listener
             THEN surface_handle_pending_buffer_destroy(pending)
             ELSE pending)
            EXCEPT !.buffer_destroy_listener = @ \ {buffer}]
    /\ buffer_ref' = IF buffer_ref = buffer THEN NULL ELSE buffer_ref
    /\ out' = NoOut
    /\ last' = Called("buffer_destroy", buffer)
    /\ UNCHANGED <<window, window_rect, xdg_surface, subsurface, sprite,
                   actor, frame_callbacks, pointerVars, seatVars, touchVars,
                   roleVars>>

\* The requests that deal with buffers and frame callbacks
BuffersNext ==
  \/ meta_wayland_surface_attach
  \/ meta_wayland_surface_frame
  \/ destroy_frame_callback
  \/ meta_wayland_surface_commit
  \/ meta_wayland_buffer_destroy
  \/ get_xdg_surface
  \/ wl_subcompositor_get_subsurface

SurfaceNext ==
  \/ meta_wayland_surface_attach
  \/ meta_wayland_surface_damage
  \/ meta_wayland_surface_frame /\ LiveCallbacks' \subseteq {"cb1"}
  \/ destroy_frame_callback
  \/ meta_wayland_surface_set_opaque_region
  \/ meta_wayland_surface_set_input_region
  \/ meta_wayland_surface_commit
  \/ get_xdg_surface
  \/ wl_subcompositor_get_subsurface
  \/ pointer_set_cursor

\* ------------------------------------------------------------------------
\* Pointer focus and grab routing (meta-wayland-pointer.c)
\* ------------------------------------------------------------------------

\* Two clients; client A owns two surfaces, client B one.
Clients == {"A", "B"}

Surfaces == {"a1", "a2", "b1"}

\* wl_resource_get_client (surface->resource)
ClientOf(surface) == IF surface = "b1" THEN "B" ELSE "A"

\* Clients that bound a wl_keyboard (kbd->resource_list).
KeyboardClients == {"A"}

GrabIds == {"g1", "g2"}

FreeGrab == [interface |-> "free", grab_client |-> NULL, all_popups |-> <<>>]

PointerInit ==
  /\ pointer = [focus |-> NULL, focus_resource |-> NULL,
                focus_listener |-> NULL, current |-> NULL,
                button_count |-> 0, grab |-> "default", resource_list |-> {},
                grab_serial |-> {}]
  /\ grabs = [g \in GrabIds |-> FreeGrab]
  /\ alive = {}
  /\ listeners = [s \in Surfaces |-> <<>>]
  /\ sent = <<>>
  /\ aborted = "no"

\* The pointer-side state handed through the calls of one handler.
World == [pointer |-> pointer, grabs |-> grabs, alive |-> alive,
          listeners |-> listeners, sent |-> <<>>, aborted |-> aborted]

Send(w, msg) == [w EXCEPT !.sent = Append(@, msg)]

\* grab->interface of the active grab
Interface(w) ==
  IF w.pointer.grab = "default" THEN "default"
  ELSE w.grabs[w.pointer.grab].interface

\* The allocator hands out the first block that is not in use.
g_slice_new0(w) == IF w.grabs["g1"].interface = "free" THEN "g1" ELSE "g2"

lose_pointer_focus_KeepsResource(w) ==
  [w EXCEPT !.pointer.focus = NULL, !.pointer.focus_listener = NULL]

lose_pointer_focus(w) ==
  [w EXCEPT !.pointer.focus_resource = NULL, !.pointer.focus = NULL,
            !.pointer.focus_listener = NULL]

find_resource_for_surface(list, surface) ==
  IF surface = NULL THEN NULL
  ELSE IF ClientOf(surface) \in list THEN ClientOf(surface) ELSE NULL

meta_wayland_pointer_set_focus_AlwaysEnters(w, surface) ==
  LET p == w.pointer
      leaving == p.focus_resource # NULL /\ p.focus # surface
      w1 == IF leaving
              THEN [Send(w, <<"leave", p.focus_resource, p.focus>>)
                      EXCEPT !.pointer.focus_listener = NULL]
              ELSE w
      resource == find_resource_for_surface(p.resource_list, surface)
      entering == resource # NULL
      kr == find_resource_for_surface(KeyboardClients, surface)
      w2 == IF entering /\ kr # NULL
              THEN Send(w1, <<"modifiers", kr, surface>>) ELSE w1
      w3 == IF entering
              THEN [Send(w2, <<"enter", resource, surface>>)
                      EXCEPT !.pointer.focus_listener = resource]
              ELSE w2
  IN [w3 EXCEPT !.pointer.focus_resource = resource,
                !.pointer.focus = surface]

meta_wayland_pointer_set_focus(w, surface) ==
  LET p == w.pointer
      leaving == p.focus_resource # NULL /\ p.focus # surface
      w1 == IF leaving
              THEN [Send(w, <<"leave", p.focus_resource, p.focus>>)
                      EXCEPT !.pointer.focus_listener = NULL]
              ELSE w
      resource == find_resource_for_surface(p.resource_list, surface)
      entering == resource # NULL
                    /\ (p.focus # surface \/ p.focus_resource # resource)
      kr == find_resource_for_surface(KeyboardClients, surface)
      w2 == IF entering /\ kr # NULL
              THEN Send(w1, <<"modifiers", kr, surface>>) ELSE w1
      w3 == IF entering
              THEN [Send(w2, <<"enter", resource, surface>>)
                      EXCEPT !.pointer.focus_listener = resource]
              ELSE w2
  IN [w3 EXCEPT !.pointer.focus_resource = resource,
                !.pointer.focus = surface]

default_grab_focus_NoGuard(w, surface) ==
  meta_wayland_pointer_set_focus(w, surface)

default_grab_focus(w, surface) ==
  IF w.pointer.button_count > 0 THEN w
  ELSE meta_wayland_pointer_set_focus(w, surface)

default_grab_motion(w) ==
  IF w.pointer.focus_resource # NULL
    THEN Send(w, <<"motion", w.pointer.focus_resource, w.pointer.focus>>)
    ELSE w

default_grab_button_NoRefocus(w, event_type) ==
  IF w.pointer.focus_resource # NULL
    THEN Send(w, <<"button", w.pointer.focus_resource, event_type>>)
    ELSE w

default_grab_button(w, event_type) ==
  LET w1 == IF w.pointer.focus_resource # NULL
              THEN Send(w, <<"button", w.pointer.focus_resource, event_type>>)
              ELSE w
  IN IF w.pointer.button_count = 0 /\ event_type = "release"
       THEN meta_wayland_pointer_set_focus(w1, w1.pointer.current)
       ELSE w1

meta_wayland_pointer_end_grab_KeepsGrab(w) ==
  default_grab_focus(w, w.pointer.current)

meta_wayland_pointer_end_grab(w) ==
  default_grab_focus([w EXCEPT !.pointer.grab = "default"], w.pointer.current)

\* popup_grab_focus dereferences its surface argument.
popup_grab_focus(w, surface) ==
  IF ClientOf(surface) = w.grabs[w.pointer.grab].grab_client
    THEN default_grab_focus(w, surface)
    ELSE meta_wayland_pointer_set_focus(w, NULL)

popup_grab_motion(w) == default_grab_motion(w)

RECURSIVE SendPopupDone(_, _)
SendPopupDone(w, popups) ==
  IF popups = <<>> THEN w
  ELSE LET popup == Head(popups)
           w1 == Send(w, <<"popup_done", ClientOf(popup), popup>>)
           w2 == [w1 EXCEPT !.listeners[popup] =
                    SelectSeq(@, LAMBDA l : l # "popup")]
       IN SendPopupDone(w2, Tail(popups))

meta_wayland_pointer_end_popup_grab_LeavesPopups(w) ==
  LET popup_grab == w.pointer.grab
      w2 == meta_wayland_pointer_end_grab(w)
  IN [w2 EXCEPT !.grabs[popup_grab] = FreeGrab]

meta_wayland_pointer_end_popup_grab(w) ==
  LET popup_grab == w.pointer.grab
  IN IF Interface(w) # "popup"
       THEN [w EXCEPT !.aborted = "assert:end_popup_grab"]
       ELSE LET w1 == SendPopupDone(w, w.grabs[popup_grab].all_popups)
                w2 == meta_wayland_pointer_end_grab(
                        [w1 EXCEPT !.grabs[popup_grab].all_popups = <<>>])
            IN [w2 EXCEPT !.grabs[popup_grab] = FreeGrab]

popup_grab_button(w, event_type) ==
  IF w.pointer.focus_resource # NULL
    THEN IF w.pointer.focus_resource # w.grabs[w.pointer.grab].grab_client
           THEN [w EXCEPT !.aborted = "assert:popup_grab_button"]
           ELSE default_grab_button(w, event_type)
  ELSE IF event_type = "release" /\ w.pointer.button_count = 0
    THEN meta_wayland_pointer_end_popup_grab(w)
    ELSE w

\* pointer->grab->interface->focus (pointer->grab, surface, event)
GrabFocus_ModalFocuses(w, surface) ==
  CASE Interface(w) = "popup" -> popup_grab_focus(w, surface)
    [] OTHER                  -> default_grab_focus(w, surface)

GrabFocus(w, surface) ==
  CASE Interface(w) = "default" -> default_grab_focus(w, surface)
    [] Interface(w) = "modal"   -> w
    [] Interface(w) = "popup"   -> popup_grab_focus(w, surface)
    [] OTHER                    -> w

GrabMotion(w) ==
  CASE Interface(w) = "default" -> default_grab_motion(w)
    [] Interface(w) = "modal"   -> w
    [] Interface(w) = "popup"   -> popup_grab_motion(w)
    [] OTHER                    -> w

GrabButton(w, event_type) ==
  CASE Interface(w) = "default" -> default_grab_button(w, event_type)
    [] Interface(w) = "modal"   -> w
    [] Interface(w) = "popup"   -> popup_grab_button(w, event_type)
    [] OTHER                    -> w

meta_wayland_pointer_start_grab(w, grab) ==
  LET w1 == [w EXCEPT !.pointer.grab = grab]
  IN IF w1.pointer.current # NULL
       THEN GrabFocus(w1, w1.pointer.current) ELSE w1

current_surface_destroy(w) == [w EXCEPT !.pointer.current = NULL]

meta_wayland_pointer_set_current(w, surface) ==
  LET cur == w.pointer.current
      w1 == IF cur # NULL
              THEN [w EXCEPT !.listeners[cur] =
                      SelectSeq(@, LAMBDA l : l # "current")]
              ELSE w
  IN IF surface = NULL THEN [w1 EXCEPT !.pointer.current = NULL]
     ELSE [w1 EXCEPT !.pointer.current = surface,
                     !.listeners[surface] = Append(@, "current")]

\* Bound on the number of buttons held down at once.
MaxButtons == 2

Running == aborted = "no"

\* The state after a handler that went through the calls to w.
\* How far the serial counter is followed
MaxSerial == 6

\* The messages that are sent with a serial of their own
\* (wl_display_next_serial); the modifiers go with the serial of the enter
\* that follows them.
Draws(log, i) ==
  Cardinality({j \in 1..i : log[j][1] \in {"leave", "enter", "button"}})

wl_display_next_serial_Same(log, i, serial) ==
  IF log[i][1] \in {"leave", "enter", "button", "modifiers"}
    THEN serial + 1 ELSE 0

\* The serial of message i of a log sent from counter value serial on
wl_display_next_serial(log, i, serial) ==
  CASE log[i][1] \in {"leave", "enter", "button"} -> serial + Draws(log, i)
    [] log[i][1] = "modifiers" -> serial + Draws(log, i) + 1
    [] OTHER -> 0

\* The serials of the messages of one call. Where the counter is not
\* followed (display_serial = {}) nothing is recorded.
SerialStep(log) ==
  /\ \A serial \in display_serial : serial + Draws(log, Len(log)) <= MaxSerial
  /\ display_serial' = {serial + Draws(log, Len(log)) : serial \in display_serial}
  /\ serials' = IF display_serial = {} THEN <<>>
                ELSE LET serial == CHOOSE n \in display_serial : TRUE
                     IN [i \in DOMAIN log |->
                           wl_display_next_serial(log, i, serial)]
  /\ focus_serial' =
       IF \E i \in DOMAIN log : log[i][1] = "enter"
         THEN LET i == CHOOSE k \in DOMAIN log :
                         /\ log[k][1] = "enter"
                         /\ \A j \in DOMAIN log : log[j][1] = "enter" => j <= k
              IN {wl_display_next_serial(log, i, serial) :
                    serial \in display_serial}
         ELSE focus_serial

PointerWorldStep(w, op, ret) ==
  /\ SerialStep(w.sent)
  /\ pointer' = w.pointer
  /\ grabs' = w.grabs
  /\ alive' = w.alive
  /\ listeners' = w.listeners
  /\ sent' = w.sent
  /\ aborted' = w.aborted
  /\ last' = Called(op, ret)
  /\ UNCHANGED <<surfaceVars, seatVars, touchVars>>

PointerStep(w, op, ret) ==
  /\ PointerWorldStep(w, op, ret)
  /\ UNCHANGED roleVars

\* The role extensions embedded in a surface
RoleKinds == {"xdg_surface", "xdg_popup", "subsurface"}

\* A surface as g_slice_new0 leaves it: no window, no extension resource.
\* assigned records whether a role request succeeded in this lifetime.
NoRole == [window |-> NULL, xdg_surface |-> FALSE, xdg_popup |-> FALSE,
           subsurface |-> FALSE, assigned |-> FALSE]

\* The role objects that exist for a surface
RoleObjects(s) == {k \in RoleKinds : role[s][k]}

\* A new surface does not take the address of a freed surface that a
\* pointer focus or a role object still refers to.
meta_wayland_surface_create ==
  \E s \in Surfaces \ alive :
    /\ Running
    /\ pointer.focus # s
    /\ RoleObjects(s) = {}
    /\ role' = [role EXCEPT ![s] = NoRole]
    /\ PointerWorldStep([World EXCEPT !.alive = @ \cup {s}], "event", NULL)

\* A client binds wl_pointer: its resource joins pointer->resource_list.
seat_get_pointer ==
  \E c \in Clients \ pointer.resource_list :
    /\ Running
    /\ PointerStep([World EXCEPT !.pointer.resource_list = @ \cup {c}],
                   "event", NULL)

\* A wl_pointer resource is destroyed: its destroy listeners run, then it
\* leaves the resource list.
unbind_resource ==
  \E c \in pointer.resource_list :
    /\ Running
    /\ LET w1 == IF pointer.focus_listener = c
                   THEN lose_pointer_focus(World) ELSE World
       IN PointerStep([w1 EXCEPT !.pointer.resource_list = @ \ {c}],
                      "event", NULL)

\* The focus handler of a popup grab is handed a surface, never NULL.
CanPick(w, surface) ==
  \/ surface # NULL
  \/ surface = w.pointer.focus
  \/ Interface(w) # "popup"

meta_wayland_seat_repick(w, surface) ==
  LET w1 == meta_wayland_pointer_set_current(w, surface)
  IN IF surface # w1.pointer.focus THEN GrabFocus(w1, surface) ELSE w1

handle_motion_event ==
  \E surface \in alive \cup {NULL} :
    /\ Running
    /\ CanPick(World, surface)
    /\ PointerStep(GrabMotion(meta_wayland_seat_repick(World, surface)),
                   "event", NULL)

handle_button_event ==
  \E event_type \in {"press", "release"} :
    /\ Running
    /\ event_type = "press" => pointer.button_count < MaxButtons
    /\ event_type = "release" => pointer.button_count > 0
    /\ LET count == IF event_type = "press" THEN pointer.button_count + 1
                    ELSE pointer.button_count - 1
           w1 == [World EXCEPT !.pointer.button_count = count]
           w2 == GrabButton(w1, event_type)
           \* the serial of the press that took the pointer from no button
           \* held to one (wl_display_get_serial after the grab's handler)
           w3 == IF event_type = "press" /\ count = 1
                   THEN [w2 EXCEPT !.pointer.grab_serial =
                           {serial + Draws(w2.sent, Len(w2.sent)) :
                              serial \in display_serial}]
                   ELSE w2
       IN PointerStep(w3, "button", event_type)

meta_wayland_pointer_begin_modal_NoGuard(w) ==
  LET w1 == meta_wayland_pointer_set_focus(w, NULL)
      grab == g_slice_new0(w1)
      w2 == [w1 EXCEPT !.grabs[grab] = [FreeGrab EXCEPT !.interface = "modal"]]
  IN [w |-> meta_wayland_pointer_start_grab(w2, grab), ret |-> TRUE]

meta_wayland_pointer_begin_modal(w) ==
  IF w.pointer.grab # "default" THEN [w |-> w, ret |-> FALSE]
  ELSE LET w1 == meta_wayland_pointer_set_focus(w, NULL)
           grab == g_slice_new0(w1)
           w2 == [w1 EXCEPT !.grabs[grab] =
                    [FreeGrab EXCEPT !.interface = "modal"]]
       IN [w |-> meta_wayland_pointer_start_grab(w2, grab), ret |-> TRUE]

begin_modal ==
  /\ Running
  /\ LET r == meta_wayland_pointer_begin_modal(World)
     IN PointerStep(r.w, "begin_modal", r.ret)

meta_wayland_pointer_end_modal(w) ==
  LET grab == w.pointer.grab
      w1 == meta_wayland_pointer_end_grab(w)
  IN [w1 EXCEPT !.grabs[grab] = FreeGrab]

\* The caller ends the modal grab it began (g_assert on the interface).
end_modal ==
  /\ Running
  /\ Interface(World) = "modal"
  /\ PointerStep(meta_wayland_pointer_end_modal(World), "end_modal", NULL)

meta_wayland_pointer_start_popup_grab_Joins(w, surface) ==
  IF w.pointer.grab # "default" /\ Interface(w) # "popup"
    THEN [w |-> w, ret |-> FALSE]
  ELSE LET fresh == w.pointer.grab = "default"
           grab == IF fresh THEN g_slice_new0(w) ELSE w.pointer.grab
           w1 == IF fresh
                   THEN [w EXCEPT !.grabs[grab] =
                           [interface |-> "popup",
                            grab_client |-> ClientOf(surface),
                            all_popups |-> <<>>]]
                   ELSE w
           w2 == IF fresh THEN meta_wayland_pointer_start_grab(w1, grab) ELSE w1
           w3 == [w2 EXCEPT !.listeners[surface] = Append(@, "popup"),
                            !.grabs[grab].all_popups = <<surface>> \o @]
       IN [w |-> w3, ret |-> TRUE]

meta_wayland_pointer_start_popup_grab(w, surface) ==
  IF w.pointer.grab # "default" THEN [w |-> w, ret |-> FALSE]
  ELSE LET grab == g_slice_new0(w)
           w1 == [w EXCEPT !.grabs[grab] =
                    [interface |-> "popup",
                     grab_client |-> ClientOf(surface),
                     all_popups |-> <<>>]]
           w2 == meta_wayland_pointer_start_grab(w1, grab)
           w3 == [w2 EXCEPT !.listeners[surface] = Append(@, "popup"),
                            !.grabs[grab].all_popups = <<surface>> \o @]
       IN [w |-> w3, ret |-> TRUE]

\* get_xdg_popup ends in meta_wayland_pointer_start_popup_grab.
start_popup_grab ==
  \E surface \in alive :
    /\ Running
    /\ LET r == meta_wayland_pointer_start_popup_grab(World, surface)
       IN PointerStep(r.w, "start_popup_grab", [ret |-> r.ret, surface |-> surface])

on_popup_surface_destroy_KeepsGrab(w, surface) ==
  [w EXCEPT !.grabs[w.pointer.grab].all_popups = Without(@, surface)]

on_popup_surface_destroy(w, surface) ==
  LET popup_grab == w.pointer.grab
      w1 == [w EXCEPT !.grabs[popup_grab].all_popups = Without(@, surface)]
  IN IF w1.grabs[popup_grab].all_popups = <<>>
       THEN meta_wayland_pointer_end_popup_grab(w1)
       ELSE w1

\* wl_signal_emit: the destroy listeners run in the order they were added.
RECURSIVE EmitDestroy(_, _, _)
EmitDestroy(w, surface, ls) ==
  IF ls = <<>> THEN w
  ELSE LET w1 == IF Head(ls) = "current" THEN current_surface_destroy(w)
                 ELSE on_popup_surface_destroy(w, surface)
       IN EmitDestroy(w1, surface, Tail(ls))

\* destroy_window on the role record r of a surface: the assertion, the
\* unmanage and the reset of surface->window
destroy_window(r) ==
  IF r.window = NULL
  THEN [r |-> r, aborted |-> "assert:destroy_window", unmanaged |-> NULL]
  ELSE [r |-> [r EXCEPT !.window = NULL], aborted |-> "no",
        unmanaged |-> r.window]

\* wl_resource_destroy of a wl_surface: destroy listeners, then
\* meta_wayland_surface_resource_destroy_cb, which unmanages a window the
\* surface has, and meta_wayland_surface_free, which repicks. The destroy
\* listener of a role extension is on the resource that create_surface_extension
\* receives as surface_resource, which the callers pass the shell resource
\* for, so the role objects outlive the surface.
meta_wayland_surface_resource_destroy_cb ==
  \E surface \in alive :
    \E picked \in (alive \ {surface}) \cup {NULL} :
      /\ Running
      /\ LET w1 == EmitDestroy(World, surface, listeners[surface])
             w2 == [w1 EXCEPT !.listeners[surface] = <<>>,
                              !.alive = @ \ {surface}]
         IN /\ CanPick(w2, picked)
            /\ role' = [role EXCEPT ![surface].window = NULL]
            /\ PointerWorldStep(meta_wayland_seat_repick(w2, picked), "destroy",
                                [surface |-> surface,
                                 popup |-> "popup" \in Range(listeners[surface]),
                                 unmanaged |-> role[surface].window])

PointerNext ==
  \/ meta_wayland_surface_create
  \/ seat_get_pointer
  \/ unbind_resource
  \/ handle_motion_event
  \/ handle_button_event
  \/ begin_modal
  \/ end_modal
  \/ start_popup_grab
  \/ meta_wayland_surface_resource_destroy_cb

\* The focus changes of the default grab, with the serials followed
SerialNext ==
  \/ meta_wayland_surface_create
  \/ seat_get_pointer
  \/ unbind_resource
  \/ handle_motion_event
  \/ handle_button_event
  \/ meta_wayland_surface_resource_destroy_cb

\* ---------------------------------------------------------------------
\* Role requests and role objects (xdg_shell, wl_subcompositor)
\* ---------------------------------------------------------------------

\* A role request or destructor that leaves the pointer alone
RoleStep(op, ret) ==
  /\ last' = Called(op, ret)
  /\ UNCHANGED <<surfaceVars, pointerVars, seatVars, touchVars>>

\* What a role request reports
Answer(surface, error, created) ==
  [surface |-> surface, error |-> error]

\* xdg_shell.get_xdg_surface
xdg_shell_get_xdg_surface ==
  \E surface \in alive :
    /\ Running
    /\ IF create_surface_extension(role[surface].xdg_surface)
         THEN /\ role' = [role EXCEPT ![surface].xdg_surface = TRUE,
                                      ![surface].window = "toplevel",
                                      ![surface].assigned = TRUE]
              /\ RoleStep("get_xdg_surface", Answer(surface, FALSE, TRUE))
         ELSE /\ UNCHANGED role
              /\ RoleStep("get_xdg_surface", Answer(surface, TRUE, FALSE))

\* xdg_shell.get_xdg_popup, which ends in meta_wayland_pointer_start_popup_grab
xdg_shell_get_xdg_popup ==
  \E surface \in alive, parent_surf \in alive \cup {NULL} :
    /\ Running
    /\ IF parent_surf = NULL \/ role[parent_surf].window = NULL
         THEN /\ UNCHANGED role
              /\ RoleStep("get_xdg_popup", Answer(surface, FALSE, FALSE))
         ELSE IF create_surface_extension(role[surface].xdg_popup)
         THEN /\ role' = [role EXCEPT ![surface].xdg_popup = TRUE,
                                      ![surface].window = "popup",
                                      ![surface].assigned = TRUE]
              /\ PointerWorldStep(
                   meta_wayland_pointer_start_popup_grab(World, surface).w,
                   "get_xdg_popup", Answer(surface, FALSE, TRUE))
         ELSE /\ UNCHANGED role
              /\ RoleStep("get_xdg_popup", Answer(surface, TRUE, FALSE))

\* wl_subcompositor.get_subsurface
subcompositor_get_subsurface ==
  \E surface \in alive, parent \in alive :
    /\ Running
    /\ IF create_surface_extension(role[surface].subsurface)
         THEN /\ role' = [role EXCEPT ![surface].subsurface = TRUE,
                                      ![surface].assigned = TRUE]
              /\ RoleStep("get_subsurface", Answer(surface, FALSE, TRUE))
         ELSE /\ UNCHANGED role
              /\ RoleStep("get_subsurface", Answer(surface, TRUE, FALSE))

\* The destructor of an xdg_surface or xdg_popup object: destroy_window, then
\* destroy_surface_extension. On a freed surface it reads freed memory: it
\* stops at the assertion or at a fault.
WindowRoleDestructor(surface, kind) ==
  /\ role[surface][kind]
  /\ IF surface \in alive
       THEN LET d == destroy_window(role[surface])
            IN /\ role' = [role EXCEPT ![surface] =
                             IF d.aborted = "no"
                             THEN [d.r EXCEPT ![kind] = FALSE] ELSE d.r]
               /\ aborted' = d.aborted
               /\ last' = Called("destructor",
                                 [surface |-> surface, kind |-> kind,
                                  unmanaged |-> d.unmanaged])
       ELSE /\ aborted' \in {"assert:destroy_window", "fault"}
            /\ UNCHANGED role
            /\ last' = Called("destructor",
                              [surface |-> surface, kind |-> kind,
                               unmanaged |-> NULL])
  /\ UNCHANGED <<surfaceVars, pointer, grabs, alive, listeners, sent,
                 display_serial, focus_serial, serials, seatVars,
                 touchVars>>

xdg_surface_destructor ==
  \E surface \in Surfaces :
    /\ Running
    /\ WindowRoleDestructor(surface, "xdg_surface")

xdg_popup_destructor ==
  \E surface \in Surfaces :
    /\ Running
    /\ WindowRoleDestructor(surface, "xdg_popup")

\* The destructor of a wl_subsurface object: unparent_actor, then
\* destroy_surface_extension. On a freed surface it reads freed memory.
wl_subsurface_destructor ==
  \E surface \in Surfaces :
    /\ Running
    /\ role[surface].subsurface
    /\ IF surface \in alive
         THEN /\ role' = [role EXCEPT ![surface].subsurface = FALSE]
              /\ UNCHANGED aborted
         ELSE \/ /\ role' = [role EXCEPT ![surface].subsurface = FALSE]
                 /\ UNCHANGED aborted
              \/ /\ aborted' = "fault"
                 /\ UNCHANGED role
    /\ last' = Called("destructor", [surface |-> surface,
                                     kind |-> "subsurface",
                                     unmanaged |-> NULL])
    /\ UNCHANGED <<surfaceVars, pointer, grabs, alive, listeners, sent,
                   display_serial, focus_serial, serials,
                   seatVars, touchVars>>

\* The surfaces that the role requests are followed on
RoleSurfaces == {"a1", "b1"}

\* The role requests are followed on two surfaces, with the pointer over no
\* surface.
RolesNext ==
  \/ meta_wayland_surface_create /\ alive' \subseteq RoleSurfaces
  \/ meta_wayland_surface_resource_destroy_cb /\ pointer'.current = NULL
  \/ xdg_shell_get_xdg_surface
  \/ xdg_shell_get_xdg_popup
  \/ subcompositor_get_subsurface
  \/ xdg_surface_destructor
  \/ xdg_popup_destructor
  \/ wl_subsurface_destructor

\* -- Interactive move and resize (xdg_surface.move, xdg_surface.resize) --

grab_op_for_edge_AlwaysResizes(edge) ==
  CASE edge = 5  -> "META_GRAB_OP_RESIZING_NW"
    [] edge = 1  -> "META_GRAB_OP_RESIZING_N"
    [] edge = 9  -> "META_GRAB_OP_RESIZING_NE"
    [] edge = 8  -> "META_GRAB_OP_RESIZING_E"
    [] edge = 10 -> "META_GRAB_OP_RESIZING_SE"
    [] edge = 2  -> "META_GRAB_OP_RESIZING_S"
    [] edge = 6  -> "META_GRAB_OP_RESIZING_SW"
    [] edge = 4  -> "META_GRAB_OP_RESIZING_W"
    [] OTHER     -> "META_GRAB_OP_RESIZING_N"

grab_op_for_edge(edge) ==
  CASE edge = 5  -> "META_GRAB_OP_RESIZING_NW"
    [] edge = 1  -> "META_GRAB_OP_RESIZING_N"
    [] edge = 9  -> "META_GRAB_OP_RESIZING_NE"
    [] edge = 8  -> "META_GRAB_OP_RESIZING_E"
    [] edge = 10 -> "META_GRAB_OP_RESIZING_SE"
    [] edge = 2  -> "META_GRAB_OP_RESIZING_S"
    [] edge = 6  -> "META_GRAB_OP_RESIZING_SW"
    [] edge = 4  -> "META_GRAB_OP_RESIZING_W"
    [] OTHER     -> "META_GRAB_OP_NONE"

\* A move or resize request of a client on an xdg_surface object. passes is
\* the test both requests make before begin_grab_op_on_surface; a grab_serial
\* never written is the 0 of the zeroed seat. begin_grab_op_on_surface
\* refuses META_GRAB_OP_NONE and otherwise hands surface->window to
\* meta_display_begin_grab_op, whose answer is the window manager's; for a
\* surface already freed the window it reads is whatever the memory holds.
GrabOpRequest(op, surface, serial, edges, grab_op, began) ==
  LET grab_serial == IF pointer.grab_serial = {} THEN {0}
                     ELSE pointer.grab_serial
      passes == ~ (\/ pointer.button_count = 0
                   \/ grab_serial # {serial}
                   \/ pointer.focus # surface)
      called == passes /\ grab_op # "META_GRAB_OP_NONE"
  IN /\ Running
     /\ role[surface].xdg_surface
     /\ began => called
     /\ \E outcome \in {"no", "fault"} :
          /\ outcome = "fault" => called /\ surface \notin alive /\ ~ began
          /\ PointerStep([World EXCEPT !.aborted = outcome], op,
                         [surface |-> surface, serial |-> serial,
                          edges |-> edges, grab_op |-> grab_op,
                          began |-> began])

\* The serials a client names are those of the last press and the last
\* enter, and 0.
xdg_surface_move ==
  \E surface \in Surfaces, began \in BOOLEAN,
     serial \in pointer.grab_serial \cup focus_serial \cup {0} :
    /\ Running
    /\ GrabOpRequest("xdg_surface_move", surface, serial, {},
                     "META_GRAB_OP_MOVING", began)

\* Of the values of xdg_surface.resize_edge, 0 is "none" and 11 names no
\* edge.
xdg_surface_resize ==
  \E surface \in Surfaces, began \in BOOLEAN, edges \in {0, 5, 10, 11},
     serial \in pointer.grab_serial \cup focus_serial \cup {0} :
    /\ Running
    /\ GrabOpRequest("xdg_surface_resize", surface, serial, {edges},
                     grab_op_for_edge(edges), began)

\* The move and resize requests, with the serials followed
GrabOpNext ==
  \/ meta_wayland_surface_create /\ alive' \subseteq RoleSurfaces
  \/ seat_get_pointer /\ pointer'.resource_list \subseteq {"A"}
  \/ handle_motion_event
  \/ handle_button_event
  \/ meta_wayland_surface_resource_destroy_cb
  \/ xdg_shell_get_xdg_surface
  \/ xdg_surface_move
  \/ xdg_surface_resize

\* ------------------------------------------------------------------------
\* Input translation of the native seat (meta-seat-native.c)
\* ------------------------------------------------------------------------

\* Bound on the number of press reports not yet matched by a release, over
\* all codes.
MaxHeld == 3

\* Bound on seat->repeat_count.
MaxRepeatCount == 3

AUTOREPEAT_VALUE == 2

\* linux/input.h codes used by meta_seat_native_notify_button
BTN_LEFT == 272
BTN_RIGHT == 273
BTN_MIDDLE == 274
BTN_TOOL_PEN == 320
BTN_STYLUS3 == 329
BTN_TOUCH == 330
BTN_STYLUS == 331
BTN_STYLUS2 == 332

\* The button codes and key codes reported in the model; BTN_LEFT + 8 has no
\* button number in 1..12 on a pointer device.
ButtonCodes == {BTN_LEFT, BTN_LEFT + 8}

\* KEY_A and KEY_LEFTSHIFT
KeyCodes == {30, 42}

\* The codes whose numbering is followed: the mouse buttons, the stylus
\* codes, and codes below, inside and above the range of the numbers 1..12
NumberedCodes == {BTN_LEFT - 5, BTN_LEFT, BTN_RIGHT, BTN_MIDDLE, BTN_LEFT + 3,
                  BTN_LEFT + 7, BTN_LEFT + 8, BTN_TOOL_PEN, BTN_STYLUS3,
                  BTN_TOUCH, BTN_STYLUS, BTN_STYLUS2}

Codes == ButtonCodes \cup NumberedCodes \cup KeyCodes

\* The slave devices of the seat and their clutter device type.
Devices == {"mouse", "tablet", "keyboard"}

PointingDevices == {"mouse", "tablet"}

clutter_input_device_get_device_type(device) ==
  CASE device = "mouse"    -> "CLUTTER_POINTER_DEVICE"
    [] device = "tablet"   -> "CLUTTER_TABLET_DEVICE"
    [] device = "keyboard" -> "CLUTTER_KEYBOARD_DEVICE"

\* xkb_keymap_key_repeats: letters repeat, modifiers do not.
xkb_keymap_key_repeats(key) == key = 30

NoRun == [code |-> 0, shape |-> "none", presses |-> 0, releases |-> 0,
          passed_press |-> 0, passed_release |-> 0,
          first_passed |-> FALSE, last_passed |-> FALSE,
          queued_press |-> 0, queued_release |-> 0, clean |-> FALSE]

\* ++seat->button_count[button] on a press; on a release the count goes
\* down unless it is already 0.
update_button_count_NoFloor(count, state) ==
  IF state # 0 THEN count + 1 ELSE count - 1

update_button_count(count, state) ==
  IF state # 0 THEN count + 1
  ELSE IF count = 0 THEN 0 ELSE count - 1

\* The duplicate filter of notify_button and notify_key: a press passes
\* when the new count is 1, a release when the new count is 0.
PassesCountFilter_NoRelease(count, state) == state # 0 /\ count = 1

PassesCountFilter(count, state) ==
  /\ state # 0 => ~(count > 1)
  /\ state = 0 => ~(count # 0)

ButtonNr_Sequential(device, button) == button - BTN_LEFT + 1

\* The clutter button number of an evdev button code.
ButtonNr(device, button) ==
  CASE button \in {BTN_LEFT, BTN_TOUCH}     -> 1
    [] button \in {BTN_RIGHT, BTN_STYLUS}   -> 3
    [] button \in {BTN_MIDDLE, BTN_STYLUS2} -> 2
    [] button = BTN_STYLUS3                 -> 8
    [] OTHER ->
         IF clutter_input_device_get_device_type(device)
              = "CLUTTER_TABLET_DEVICE"
           THEN button - BTN_TOOL_PEN + 4
           ELSE button - (BTN_LEFT - 1) + 4

\* The evdev code that default_grab_button (meta-wayland-pointer.c) sends
\* for the button number of a clutter event
default_grab_button_code(button) ==
  CASE button = 2 -> BTN_MIDDLE
    [] button = 3 -> BTN_RIGHT
    [] OTHER      -> button + BTN_LEFT - 1

maskmap(button_nr) ==
  CASE button_nr = 1 -> {"CLUTTER_BUTTON1_MASK"}
    [] button_nr = 2 -> {"CLUTTER_BUTTON3_MASK"}
    [] button_nr = 3 -> {"CLUTTER_BUTTON2_MASK"}
    [] button_nr = 4 -> {"CLUTTER_BUTTON4_MASK"}
    [] button_nr = 5 -> {"CLUTTER_BUTTON5_MASK"}
    [] OTHER         -> {}

\* The run of reports of one code since its counter was last 0: presses,
\* then releases. passed counts the reports that the duplicate filter let
\* through, queued those that became an event. A press at counter 0 starts
\* a run, which is taken for observation or not.
RunAfter(r, take, code, count_before, state, passed, queued, staged) ==
  LET p == IF passed THEN 1 ELSE 0
      q == IF queued THEN 1 ELSE 0
  IN IF state # 0 /\ count_before = 0
       THEN IF take
              THEN [code |-> code, shape |-> "pressing", presses |-> 1,
                    releases |-> 0, passed_press |-> p, passed_release |-> 0,
                    first_passed |-> passed, last_passed |-> FALSE,
                    queued_press |-> q, queued_release |-> 0,
                    clean |-> staged]
            ELSE IF r.code = code THEN NoRun ELSE r
     ELSE IF r.code # code THEN r
     ELSE IF state # 0
       THEN IF r.shape = "pressing"
              THEN [r EXCEPT !.presses = @ + 1, !.passed_press = @ + p,
                             !.queued_press = @ + q, !.clean = @ /\ staged]
              ELSE NoRun
     ELSE IF count_before > 0
       THEN [r EXCEPT !.shape = "releasing", !.releases = @ + 1,
                      !.passed_release = @ + p, !.last_passed = passed,
                      !.queued_release = @ + q, !.clean = @ /\ staged]
     ELSE NoRun

Held == LET RECURSIVE Sum(_)
            Sum(S) == IF S = {} THEN 0
                      ELSE LET c == CHOOSE x \in S : TRUE
                           IN button_count[c] + Sum(S \ {c})
        IN Sum(Codes)

SeatStep(op) ==
  /\ last' = Called(op, NULL)
  /\ UNCHANGED <<pointer_x, pointer_y>>
  /\ UNCHANGED <<surfaceVars, pointerVars, touchVars, roleVars>>

NotifyButton(device, button, state, take) ==
    LET count == update_button_count(button_count[button], state)
        passed == PassesCountFilter(count, state)
        button_nr == ButtonNr(device, button)
        in_range == ~(button_nr < 1 \/ button_nr > 12)
        queued == passed /\ stage[device] /\ in_range
        new_state == IF ~queued THEN button_state
                     ELSE IF state # 0 THEN button_state \cup maskmap(button_nr)
                     ELSE button_state \ maskmap(button_nr)
    IN /\ button_count' = [button_count EXCEPT ![button] = count]
       /\ button_state' = new_state
       /\ events' = IF queued
                      THEN << [type |-> IF state # 0 THEN "CLUTTER_BUTTON_PRESS"
                                        ELSE "CLUTTER_BUTTON_RELEASE",
                               button |-> button_nr, code |-> button,
                               modifiers |-> new_state,
                               source_device |-> device] >>
                      ELSE <<>>
       /\ run' = RunAfter(run, take, button, button_count[button], state,
                          passed, queued, stage[device] /\ in_range)
       /\ UNCHANGED <<repeat, stage, accum, scroll>>
       /\ SeatStep("notify_button")

meta_seat_native_notify_button ==
  \E device \in PointingDevices, button \in ButtonCodes, state \in {0, 1},
     take \in BOOLEAN :
    /\ state # 0 => Held < MaxHeld
    /\ NotifyButton(device, button, state, take)

\* meta_seat_native_clear_repeat_timer: g_source_remove of the timer source
\* whose id repeat_timer holds; sources counts the timer sources that exist
meta_seat_native_clear_repeat_timer(r) ==
  IF r.repeat_timer # "none"
    THEN [r EXCEPT !.repeat_timer = "none", !.repeat_device = NULL,
                   !.sources = @ - 1]
    ELSE r

\* (mutant) a timer is added without removing the one that runs
RepeatAfterKey_NoClearOnArm(r, device, key, state) ==
  IF state = 0 \/ ~r.repeat \/ ~xkb_keymap_key_repeats(key)
    THEN meta_seat_native_clear_repeat_timer(r)
    ELSE LET n == (IF state = 1 THEN 0 ELSE r.repeat_count) + 1
             r1 == [r EXCEPT !.repeat_count = n, !.repeat_key = key]
         IN IF n \in {1, 2}
              THEN [r1 EXCEPT !.repeat_device = device,
                              !.sources = @ + 1,
                              !.repeat_timer = IF n = 1 THEN "repeat_delay"
                                               ELSE "repeat_interval"]
              ELSE r1

\* The part of meta_seat_native_notify_key after the event is queued: the
\* repeat timer is cleared, or armed with the delay or the interval.
RepeatAfterKey(r, device, key, state) ==
  IF state = 0 \/ ~r.repeat \/ ~xkb_keymap_key_repeats(key)
    THEN meta_seat_native_clear_repeat_timer(r)
    ELSE LET n == (IF state = 1 THEN 0 ELSE r.repeat_count) + 1
             r1 == [r EXCEPT !.repeat_count = n, !.repeat_key = key]
         IN IF n \in {1, 2}
              THEN [meta_seat_native_clear_repeat_timer(r1)
                      EXCEPT !.repeat_device = device,
                             !.sources = @ + 1,
                             !.repeat_timer = IF n = 1 THEN "repeat_delay"
                                              ELSE "repeat_interval"]
              ELSE r1

\* (mutant) a report for a device without stage leaves the timer alone
notify_key_NoStageKeepsTimer(counts, r, device, key, state) ==
  LET counted == state # AUTOREPEAT_VALUE
      count == IF counted THEN update_button_count(counts[key], state)
               ELSE counts[key]
      passed == counted => PassesCountFilter(count, state)
  IN IF ~passed \/ ~stage[device]
       THEN [count |-> count, passed |-> passed, queued |-> FALSE,
             repeat |-> r]
     ELSE [count |-> count, passed |-> TRUE, queued |-> TRUE,
           repeat |-> RepeatAfterKey(r, device, key, state)]

\* meta_seat_native_notify_key on the counters counts and the repeat state
\* r: the new counter of the key, whether the report passed the duplicate
\* filter, whether an event was queued, and the repeat state.
notify_key(counts, r, device, key, state) ==
  LET counted == state # AUTOREPEAT_VALUE
      count == IF counted THEN update_button_count(counts[key], state)
               ELSE counts[key]
      passed == counted => PassesCountFilter(count, state)
  IN IF ~passed
       THEN [count |-> count, passed |-> FALSE, queued |-> FALSE,
             repeat |-> r]
     ELSE IF ~stage[device]
       THEN [count |-> count, passed |-> TRUE, queued |-> FALSE,
             repeat |-> meta_seat_native_clear_repeat_timer(r)]
     ELSE [count |-> count, passed |-> TRUE, queued |-> TRUE,
           repeat |-> RepeatAfterKey(r, device, key, state)]

KeyEvent(device, key, state) ==
  [type |-> IF state = 0 THEN "CLUTTER_KEY_RELEASE" ELSE "CLUTTER_KEY_PRESS",
   code |-> key, modifiers |-> button_state,
   repeated |-> state = AUTOREPEAT_VALUE, source_device |-> device]

meta_seat_native_notify_key ==
  \E key \in KeyCodes, state \in {0, 1}, take \in BOOLEAN :
    LET k == notify_key(button_count, repeat, "keyboard", key, state)
    IN /\ state # 0 => Held < MaxHeld
       /\ button_count' = [button_count EXCEPT ![key] = k.count]
       /\ repeat' = k.repeat
       /\ events' = IF k.queued THEN << KeyEvent("keyboard", key, state) >>
                    ELSE <<>>
       /\ run' = RunAfter(run, take, key, button_count[key], state,
                          k.passed, k.queued, stage["keyboard"])
       /\ UNCHANGED <<button_state, stage, accum, scroll, pointer_x,
                      pointer_y>>
       /\ last' = Called("notify_key",
                         [key |-> key, state |-> state, passed |-> k.passed])
       /\ UNCHANGED <<surfaceVars, pointerVars, touchVars, roleVars>>

\* The key reports that libinput may hold when the repeat timer fires
DispatchQueues ==
  {<<>>} \cup { <<e>> : e \in KeyCodes \X {0, 1} }
         \cup { <<e, f>> : e \in KeyCodes \X {0, 1}, f \in KeyCodes \X {0, 1} }

\* meta_device_manager_native_dispatch: the queued reports of the keyboard
\* go through meta_seat_native_notify_key one after the other; .armed tells
\* whether one of them armed a repeat timer
meta_device_manager_native_dispatch(queue, counts, r) ==
  LET RECURSIVE Run(_, _)
      Run(i, acc) ==
        IF i > Len(queue) THEN acc
        ELSE LET key == queue[i][1]
                 state == queue[i][2]
                 k == notify_key(acc.counts, acc.repeat, "keyboard", key,
                                 state)
             IN Run(i + 1,
                    [counts |-> [acc.counts EXCEPT ![key] = k.count],
                     repeat |-> k.repeat,
                     events |-> acc.events \o
                                  (IF k.queued
                                     THEN << KeyEvent("keyboard", key, state) >>
                                     ELSE <<>>),
                     armed  |-> \/ acc.armed
                                \/ /\ k.queued
                                   /\ k.repeat.repeat_timer # "none"])
  IN Run(1, [counts |-> counts, repeat |-> r, events |-> <<>>,
             armed |-> FALSE])

\* The repeat timer fires: the queued reports are dispatched first, and the
\* repeated key event is made when a repeat timer is set after that.
keyboard_repeat ==
  \E queue \in DispatchQueues :
    LET d == meta_device_manager_native_dispatch(queue, button_count, repeat)
        fires == d.repeat.repeat_timer # "none"
        k == notify_key(d.counts, d.repeat, d.repeat.repeat_device,
                        d.repeat.repeat_key, AUTOREPEAT_VALUE)
        repeated == fires /\ k.queued
    IN /\ repeat.repeat_timer # "none"
       /\ d.repeat.repeat_count < MaxRepeatCount
       /\ Held + Len(SelectSeq(queue, LAMBDA e : e[2] = 1)) <= MaxHeld
       /\ button_count' = d.counts
       /\ repeat' = IF fires THEN k.repeat ELSE d.repeat
       /\ events' = d.events \o
                      (IF repeated
                         THEN << KeyEvent(d.repeat.repeat_device,
                                          d.repeat.repeat_key,
                                          AUTOREPEAT_VALUE) >>
                         ELSE <<>>)
       /\ last' = Called("keyboard_repeat",
                         [dispatched |-> queue, rearmed |-> d.armed,
                          repeated |-> repeated])
       /\ UNCHANGED <<button_state, stage, run, accum, scroll, pointer_x,
                      pointer_y>>
       /\ UNCHANGED <<surfaceVars, pointerVars, touchVars, roleVars>>

\* The keyboard repeat setting of the device manager: writes seat->repeat
meta_seat_native_set_keyboard_repeat ==
  \E enabled \in BOOLEAN :
    /\ enabled # repeat.repeat
    /\ repeat' = [repeat EXCEPT !.repeat = enabled]
    /\ events' = <<>>
    /\ UNCHANGED <<button_count, button_state, stage, run, accum, scroll>>
    /\ SeatStep("set_keyboard_repeat")

meta_seat_native_set_stage ==
  \E new_stage \in BOOLEAN :
    /\ stage' = [d \in Devices |-> new_stage]
    /\ stage' # stage
    /\ events' = <<>>
    /\ UNCHANGED <<button_count, button_state, repeat, run, accum,
                   scroll>>
    /\ SeatStep("set_stage")

ButtonsNext ==
  \/ meta_seat_native_notify_button
  \/ meta_seat_native_notify_key
  \/ keyboard_repeat /\ last'.ret.dispatched = <<>>
  \/ meta_seat_native_set_stage

\* Key reports, outside and inside the timer callback, timer firings, the
\* stage and the repeat setting
RepeatNext ==
  \/ meta_seat_native_notify_key /\ run' = run
  \/ keyboard_repeat
  \/ meta_seat_native_set_stage
  \/ meta_seat_native_set_keyboard_repeat

\* How many presses are held at once while the numbering is followed
MaxPressed == 1

\* Button reports of every numbered code, from either pointing device
NumberingNext ==
  \/ \E device \in PointingDevices, button \in NumberedCodes, state \in {0, 1} :
       /\ state # 0 => Held < MaxPressed
       /\ NotifyButton(device, button, state, FALSE)
  \/ meta_seat_native_set_stage

\* Scroll synthesis. Scroll deltas and accumulators are whole numbers of
\* native units.
DISCRETE_SCROLL_STEP == 10

\* Bound on the magnitude of the sum of the deltas of one sequence.
MaxScrollTotal == 20

ScrollDeltasX == {-6, -4, 4, 6, 16}

ScrollDeltasY == {-5, 0, 5}

FinishFlags == SUBSET {"CLUTTER_SCROLL_FINISHED_HORIZONTAL",
                       "CLUTTER_SCROLL_FINISHED_VERTICAL"}

fabs(x) == IF x < 0 THEN -x ELSE x

\* fmodf: the remainder has the sign of x and a magnitude below that of y.
fmodf_Zero(x, y) == 0

fmodf(x, y) == IF x < 0 THEN -(fabs(x) % y) ELSE x % y

\* floor (fabs (accum) / DISCRETE_SCROLL_STEP)
n_scrolls(a) == fabs(a) \div DISCRETE_SCROLL_STEP

\* notify_scroll: one smooth scroll event, none for a device without stage.
notify_scroll(device, dx, dy, flags, emulated) ==
  IF ~stage[device] THEN <<>>
  ELSE << [type |-> "CLUTTER_SCROLL", direction |-> "CLUTTER_SCROLL_SMOOTH",
           delta |-> <<dx, dy>>, per |-> DISCRETE_SCROLL_STEP,
           finish_flags |-> flags, emulated |-> emulated,
           modifiers |-> button_state, source_device |-> device] >>

notify_discrete_scroll(device, direction, emulated) ==
  IF direction = "CLUTTER_SCROLL_SMOOTH" \/ ~stage[device] THEN <<>>
  ELSE << [type |-> "CLUTTER_SCROLL", direction |-> direction,
           emulated |-> emulated, modifiers |-> button_state,
           source_device |-> device] >>

\* check_notify_discrete_scroll: the discrete events of both axes.
DiscreteScrolls(device, a) ==
  LET xdir == IF a.dx > 0 THEN "CLUTTER_SCROLL_RIGHT" ELSE "CLUTTER_SCROLL_LEFT"
      ydir == IF a.dy > 0 THEN "CLUTTER_SCROLL_DOWN" ELSE "CLUTTER_SCROLL_UP"
      one(dir) == notify_discrete_scroll(device, dir, TRUE)
      RECURSIVE Times(_, _)
      Times(n, dir) == IF n = 0 THEN <<>> ELSE one(dir) \o Times(n - 1, dir)
  IN Times(n_scrolls(a.dx), xdir) \o Times(n_scrolls(a.dy), ydir)

check_notify_discrete_scroll_KeepsAll(a) == a

check_notify_discrete_scroll(a) ==
  [dx |-> fmodf(a.dx, DISCRETE_SCROLL_STEP),
   dy |-> fmodf(a.dy, DISCRETE_SCROLL_STEP)]

\* One axis of the reports since the accumulator was last set to zero:
\* the sum of the deltas, the discrete steps synthesized towards the
\* positive and the negative direction, and those queued as events.
NoScroll == [same_sign |-> TRUE, total |-> 0, positive |-> 0, negative |-> 0,
             queued |-> 0, staged |-> TRUE]

MixedScroll == [same_sign |-> FALSE, total |-> 0, positive |-> 0,
                negative |-> 0, queued |-> 0, staged |-> FALSE]

XDirections == {"CLUTTER_SCROLL_RIGHT", "CLUTTER_SCROLL_LEFT"}

YDirections == {"CLUTTER_SCROLL_DOWN", "CLUTTER_SCROLL_UP"}

\* The number of events of log towards one of directions.
Directed(log, directions) ==
  Cardinality({ i \in 1 .. Len(log) : log[i].direction \in directions })

ScrollAfter(g, finished, d, a, staged, queued) ==
  IF finished THEN NoScroll
  ELSE IF ~g.same_sign \/ g.total * d < 0 THEN MixedScroll
  ELSE [same_sign |-> TRUE, total |-> g.total + d,
        positive |-> g.positive + (IF a > 0 THEN n_scrolls(a) ELSE 0),
        negative |-> g.negative + (IF a > 0 THEN 0 ELSE n_scrolls(a)),
        queued |-> g.queued + queued,
        staged |-> g.staged /\ staged]

meta_seat_native_notify_scroll_continuous ==
  \E dx \in ScrollDeltasX, dy \in ScrollDeltasY, finish_flags \in FinishFlags :
    LET device == "mouse"
        fx == "CLUTTER_SCROLL_FINISHED_HORIZONTAL" \in finish_flags
        fy == "CLUTTER_SCROLL_FINISHED_VERTICAL" \in finish_flags
        a == [dx |-> IF fx THEN 0 ELSE accum.dx + dx,
              dy |-> IF fy THEN 0 ELSE accum.dy + dy]
        discrete == DiscreteScrolls(device, a)
    IN /\ ~fx /\ scroll.dx.same_sign => fabs(scroll.dx.total + dx) <= MaxScrollTotal
       /\ ~fy /\ scroll.dy.same_sign => fabs(scroll.dy.total + dy) <= MaxScrollTotal
       /\ events' = notify_scroll(device, dx, dy, finish_flags, FALSE)
                      \o discrete
       /\ accum' = check_notify_discrete_scroll(a)
       /\ scroll' = [dx |-> ScrollAfter(scroll.dx, fx, dx, a.dx, stage[device],
                                         Directed(discrete, XDirections)),
                     dy |-> ScrollAfter(scroll.dy, fy, dy, a.dy, stage[device],
                                         Directed(discrete, YDirections))]
       /\ UNCHANGED <<button_count, button_state, repeat, stage, run>>
       /\ last' = Called("notify_scroll_continuous",
                         [dx |-> dx, dy |-> dy, finish_flags |-> finish_flags])
       /\ UNCHANGED <<pointer_x, pointer_y>>
       /\ UNCHANGED <<surfaceVars, pointerVars, touchVars, roleVars>>

discrete_to_direction(discrete_dx, discrete_dy) ==
  CASE discrete_dx > 0 -> "CLUTTER_SCROLL_RIGHT"
    [] discrete_dx < 0 -> "CLUTTER_SCROLL_LEFT"
    [] discrete_dy > 0 -> "CLUTTER_SCROLL_DOWN"
    [] discrete_dy < 0 -> "CLUTTER_SCROLL_UP"

\* A wheel click; libinput reports a step on one axis at least.
meta_seat_native_notify_discrete_scroll ==
  \E discrete_dx \in {-1, 0, 1}, discrete_dy \in {-1, 0, 1} :
    /\ <<discrete_dx, discrete_dy>> # <<0, 0>>
    /\ events' = notify_scroll("mouse", discrete_dx * DISCRETE_SCROLL_STEP,
                               discrete_dy * DISCRETE_SCROLL_STEP, {}, TRUE)
                   \o notify_discrete_scroll("mouse",
                        discrete_to_direction(discrete_dx, discrete_dy), FALSE)
    /\ UNCHANGED <<button_count, button_state, repeat, stage, run,
                   accum, scroll>>
    /\ SeatStep("notify_discrete_scroll")

\* ------------------------------------------------------------------------
\* Pointer motion (meta-seat-native.c) and the pointer constrain callback
\* (meta-wayland-pointer.c). Coordinates are whole numbers.
\* ------------------------------------------------------------------------

INITIAL_POINTER_X == 16

INITIAL_POINTER_Y == 16

\* Bound on the magnitude of the coordinates of the pointer
MaxCoord == 40

\* The monitor infos the monitor manager may hold: one monitor, or a second,
\* less high one to the right of it
MonitorLayouts ==
  { << [x |-> 0, y |-> 0, width |-> 20, height |-> 20] >>,
    << [x |-> 0, y |-> 0, width |-> 20, height |-> 20],
       [x |-> 20, y |-> 0, width |-> 20, height |-> 10] >> }

\* pointer_constrain_callback with no barrier: check_all_screen_monitors,
\* then constrain_all_screen_monitors. Both take bottom as left + height.
pointer_constrain_callback(monitors, current_x, current_y, new_x, new_y) ==
  LET left(i) == monitors[i].x
      right(i) == left(i) + monitors[i].width
      top(i) == monitors[i].y
      bottom(i) == left(i) + monitors[i].height
      within(i, x, y) == (x >= left(i)) /\ (x < right(i))
                           /\ (y >= top(i)) /\ (y < bottom(i))
      n_monitors == Len(monitors)
      check_all_screen_monitors ==
        \E i \in 1 .. n_monitors : within(i, new_x, new_y)
      from == { i \in 1 .. n_monitors : within(i, current_x, current_y) }
      first == CHOOSE i \in from : \A j \in from : i <= j
      x1 == IF new_x < left(first) THEN left(first) ELSE new_x
      x2 == IF x1 >= right(first) THEN right(first) - 1 ELSE x1
      y1 == IF new_y < top(first) THEN top(first) ELSE new_y
      y2 == IF y1 >= bottom(first) THEN bottom(first) - 1 ELSE y1
  IN IF check_all_screen_monitors \/ from = {}
       THEN <<new_x, new_y>>
       ELSE <<x2, y2>>

\* new_absolute_motion_event: the position of a device that is no tablet
\* goes through the constrain callback and becomes the position of the
\* seat; the event carries the stage of the device, which may be none
new_absolute_motion_event(monitors, input_device, x, y) ==
  LET tablet == clutter_input_device_get_device_type(input_device)
                  = "CLUTTER_TABLET_DEVICE"
      to == IF tablet THEN <<x, y>>
            ELSE pointer_constrain_callback(monitors, pointer_x, pointer_y,
                                            x, y)
  IN [event |-> [type |-> "CLUTTER_MOTION", stage |-> stage[input_device],
                 x |-> to[1], y |-> to[2], modifiers |-> button_state,
                 source_device |-> input_device],
      pointer_x |-> IF tablet THEN pointer_x ELSE to[1],
      pointer_y |-> IF tablet THEN pointer_y ELSE to[2]]

meta_seat_native_notify_relative_motion ==
  \E monitors \in MonitorLayouts, input_device \in PointingDevices,
     dx \in {-20, 20}, dy \in {-10, 10} :
    LET new_x == pointer_x + dx
        new_y == pointer_y + dy
        m == new_absolute_motion_event(monitors, input_device, new_x, new_y)
    IN /\ fabs(new_x) <= MaxCoord
       /\ fabs(new_y) <= MaxCoord
       /\ IF ~stage[input_device]
            THEN /\ events' = <<>>
                 /\ UNCHANGED <<pointer_x, pointer_y>>
            ELSE /\ events' = << m.event >>
                 /\ pointer_x' = m.pointer_x
                 /\ pointer_y' = m.pointer_y
       /\ last' = Called("notify_relative_motion",
                         [monitors |-> monitors, device |-> input_device,
                          to |-> <<new_x, new_y>>])
       /\ UNCHANGED <<button_count, button_state, repeat, stage, run, accum,
                      scroll>>
       /\ UNCHANGED <<surfaceVars, pointerVars, touchVars, roleVars>>

meta_seat_native_notify_absolute_motion ==
  \E monitors \in MonitorLayouts, input_device \in PointingDevices,
     x \in {-1, 16, 25}, y \in {5, 15, 35} :
    LET m == new_absolute_motion_event(monitors, input_device, x, y)
    IN /\ events' = << m.event >>
       /\ pointer_x' = m.pointer_x
       /\ pointer_y' = m.pointer_y
       /\ last' = Called("notify_absolute_motion",
                         [monitors |-> monitors, device |-> input_device,
                          to |-> <<x, y>>])
       /\ UNCHANGED <<button_count, button_state, repeat, stage, run, accum,
                      scroll>>
       /\ UNCHANGED <<surfaceVars, pointerVars, touchVars, roleVars>>

MotionNext ==
  \/ meta_seat_native_notify_relative_motion
  \/ meta_seat_native_notify_absolute_motion
  \/ meta_seat_native_set_stage

ScrollNext ==
  \/ meta_seat_native_notify_scroll_continuous
  \/ meta_seat_native_notify_discrete_scroll
  \/ meta_seat_native_set_stage

SeatInit ==
  /\ button_count = [c \in Codes |-> 0]
  /\ button_state = {}
  /\ repeat = [repeat |-> TRUE, repeat_timer |-> "none",
               repeat_device |-> NULL, repeat_count |-> 0, repeat_key |-> 0,
               sources |-> 0]
  /\ stage = [d \in Devices |-> FALSE]
  /\ events = <<>>
  /\ run = NoRun
  /\ accum = [dx |-> 0, dy |-> 0]
  /\ pointer_x = INITIAL_POINTER_X
  /\ pointer_y = INITIAL_POINTER_Y
  /\ scroll = [dx |-> NoScroll, dy |-> NoScroll]

\* ---------------------------------------------------------------------
\* Touch states of the native seat (meta-seat-native.c)
\* ---------------------------------------------------------------------

\* Addresses the allocator can hand out for touch states
MaxTouches == 6

TouchIds == 1..MaxTouches

\* Slots of the input devices
DeviceSlots == {0, 1}

\* Touch states that were acquired and not released
LiveTouches == {t \in TouchIds : touch_heap[t] # {}}

TouchInit ==
  /\ touch_states = [i \in {} |-> {}]
  /\ n_alloc_touch_states = 0
  /\ touch_heap = [t \in TouchIds |-> {}]

TouchStep(op, ret) ==
  /\ last' = Called(op, ret)
  /\ UNCHANGED <<surfaceVars, pointerVars, seatVars, roleVars>>

\* The table after ensure_seat_slot_allocated: [touch_states, n_alloc]
ensure_seat_slot_allocated_Always(states, n_alloc, seat_slot) ==
  [touch_states |-> [i \in 0..(n_alloc + 5 - 1) |->
                       IF i < n_alloc THEN states[i] ELSE {}],
   n_alloc |-> n_alloc + 5]

ensure_seat_slot_allocated(states, n_alloc, seat_slot) ==
  IF seat_slot >= n_alloc
  THEN [touch_states |-> [i \in 0..(n_alloc + 5 - 1) |->
                            IF i < n_alloc THEN states[i] ELSE {}],
        n_alloc |-> n_alloc + 5]
  ELSE [touch_states |-> states, n_alloc |-> n_alloc]

\* The scan of acquire_touch_state: the slot at which the loop stops
ScanSeatSlot(states, n_alloc) ==
  IF \E i \in 0..(n_alloc - 1) : states[i] = {}
  THEN CHOOSE i \in 0..(n_alloc - 1) :
         /\ states[i] = {}
         /\ \A j \in 0..(i - 1) : states[j] # {}
  ELSE n_alloc

\* The address of a new touch state
NewTouch == CHOOSE t \in TouchIds \ LiveTouches :
              \A u \in TouchIds \ LiveTouches : t <= u

meta_seat_native_acquire_touch_state ==
  \E device_slot \in DeviceSlots :
    /\ LiveTouches # TouchIds
    /\ LET seat_slot == ScanSeatSlot(touch_states, n_alloc_touch_states)
           table == ensure_seat_slot_allocated(touch_states,
                                               n_alloc_touch_states, seat_slot)
           touch_state == NewTouch
       IN /\ touch_heap' = [touch_heap EXCEPT ![touch_state] =
                              {[seat_slot |-> seat_slot,
                                device_slot |-> device_slot]}]
          /\ touch_states' = [table.touch_states EXCEPT ![seat_slot] =
                                {touch_state}]
          /\ n_alloc_touch_states' = table.n_alloc
          /\ TouchStep("acquire_touch_state", touch_state)

\* Which slot release_touch_state clears
ReleasedSlot_None(touch_state) == {}

ReleasedSlot(touch_state) ==
  {r.seat_slot : r \in touch_heap[touch_state]}

meta_seat_native_release_touch_state ==
  \E touch_state \in LiveTouches :
    /\ touch_states' = [i \in DOMAIN touch_states |->
                          IF i \in ReleasedSlot(touch_state)
                          THEN {} ELSE touch_states[i]]
    /\ touch_heap' = [touch_heap EXCEPT ![touch_state] = {}]
    /\ UNCHANGED n_alloc_touch_states
    /\ TouchStep("release_touch_state", touch_state)

TouchNext ==
  \/ meta_seat_native_acquire_touch_state
  \/ meta_seat_native_release_touch_state


\* The state after construction, but for the serials
Construction ==
  /\ SurfaceInit
  /\ PointerInit
  /\ SeatInit
  /\ TouchInit
  /\ role = [s \in Surfaces |-> NoRole]
  /\ last = Called("init", NULL)

Init ==
  /\ Construction
  /\ display_serial = {}
  /\ focus_serial = {}
  /\ serials = <<>>

\* The same state with the serial counter followed from 0
SerialInit ==
  /\ Construction
  /\ display_serial = {0}
  /\ focus_serial = {0}
  /\ serials = <<>>

SpecGrabOp == SerialInit /\ [][GrabOpNext]_vars

SpecSurface == Init /\ [][SurfaceNext]_vars

SpecBuffers == Init /\ [][BuffersNext]_vars

SpecPointer == Init /\ [][PointerNext]_vars

SpecRepeat == Init /\ [][RepeatNext]_vars

SpecButtons == Init /\ [][ButtonsNext]_vars

SpecScroll == Init /\ [][ScrollNext]_vars

SpecMotion == Init /\ [][MotionNext]_vars

SpecNumbering == Init /\ [][NumberingNext]_vars

SpecSerial == SerialInit /\ [][SerialNext]_vars

SpecTouch == Init /\ [][TouchNext]_vars

SpecRoles == Init /\ [][RolesNext]_vars

\* ------------------------------------------------------------------------
\* Properties of the surface state machine
\* ------------------------------------------------------------------------

\* C1: immediately after each commit the pending damage region is empty, the
\* pending newly-attached flag is false, the pending buffer is none and the
\* pending offset dx,dy is 0,0.
C1_PendingResetAfterCommit ==
  last.op = "commit" =>
    /\ pending.damage = {}
    /\ pending.newly_attached = FALSE
    /\ pending.buffer = NULL
    /\ pending.dx = 0
    /\ pending.dy = 0

\* A commit of a toplevel that applied damage, a new buffer and a non-zero
\* offset has just run.
C1_Witness ==
  /\ last.op = "commit"
  /\ out.damage # {}
  /\ out.attach \in Buffers
  /\ out.resize # <<>>
  /\ out.resize[3] = 1
  /\ out.resize[4] = 1
  /\ pending.damage = {}

\* C2 as stated: a commit leaves the pending opaque region and the pending
\* input region as they were before it.
C2_PendingRegionsSurviveCommit ==
  [][meta_wayland_surface_commit =>
       /\ pending'.opaque_region = pending.opaque_region
       /\ pending'.input_region = pending.input_region]_vars

\* The regions the actor holds after a commit of a surface whose role commits
\* through actor_surface_commit: the pending one if one is set, else the old
ActorRegionAfterCommit(pending_region, actor_region) ==
  IF ~sprite /\ (window # NULL \/ subsurface) /\ pending_region # NoRegion
    THEN pending_region
    ELSE actor_region

\* C2 (amended): a commit resets the pending opaque region and the pending
\* input region to none, as it resets the damage; what persists over commits
\* is the region the surface actor holds: it is replaced only by a commit
\* of a toplevel or subsurface that carries a newly set region.
C2_CommitResetsPendingRegions ==
  [][meta_wayland_surface_commit =>
       /\ pending'.opaque_region = NoRegion
       /\ pending'.input_region = NoRegion
       /\ actor'.opaque_region =
            ActorRegionAfterCommit(pending.opaque_region, actor.opaque_region)
       /\ actor'.input_region =
            ActorRegionAfterCommit(pending.input_region, actor.input_region)]_vars

\* A commit that carried no region has run on a surface whose actor holds
\* the opaque and input regions of an earlier commit.
C2_Witness ==
  /\ last.op = "commit"
  /\ out.opaque = NoRegion
  /\ out.input = NoRegion
  /\ out.attach \in Buffers
  /\ actor.opaque_region # NoRegion
  /\ actor.input_region # NoRegion
  /\ pending.opaque_region = NoRegion
  /\ pending.input_region = NoRegion

\* ------------------------------------------------------------------------
\* Properties of the pointer grab router
\* ------------------------------------------------------------------------

ActiveGrab == grabs[pointer.grab]

PopupDoneCount(log, surface) ==
  Cardinality({ i \in 1 .. Len(log) :
                  log[i] = <<"popup_done", ClientOf(surface), surface>> })

\* C3: in every reachable state the pointer's active grab is not null and is
\* exactly one of the default grab, a modal grab or a popup grab: it is the
\* embedded default grab or a grab object that is allocated and carries the
\* modal or the popup interface.
C3_ActiveGrabIsDefaultModalOrPopup ==
  /\ pointer.grab \in {"default"} \cup GrabIds
  /\ pointer.grab # "default" => ActiveGrab.interface \in {"modal", "popup"}
  /\ \A g \in GrabIds : grabs[g].interface # "free" => pointer.grab = g

C3_Witness ==
  /\ last.op = "end_modal"
  /\ pointer.grab = "default"
  /\ pointer.focus_resource # NULL
  /\ \A g \in GrabIds : grabs[g] = FreeGrab

\* C4: begin_modal called while a modal or popup grab is active returns FALSE
\* and leaves the active grab, the focus and the focus resource unchanged;
\* called while the default grab is active it returns TRUE and a modal grab
\* is active afterwards.
C4_BeginModalOnlyFromDefault ==
  [][begin_modal =>
       IF pointer.grab # "default"
         THEN /\ last'.ret = FALSE
              /\ pointer'.grab = pointer.grab
              /\ grabs' = grabs
              /\ pointer'.focus = pointer.focus
              /\ pointer'.focus_resource = pointer.focus_resource
         ELSE /\ last'.ret = TRUE
              /\ pointer'.grab # "default"
              /\ grabs'[pointer'.grab].interface = "modal"]_vars

C4_Witness ==
  /\ last.op = "begin_modal"
  /\ last.ret = FALSE
  /\ pointer.grab # "default"
  /\ ActiveGrab.interface = "popup"
  /\ pointer.focus_resource # NULL

\* C5: start_popup_grab for a surface whose client differs from the owner of
\* the active popup grab returns FALSE and leaves the active grab, its owner
\* and its tracked popups unchanged.
C5_PopupGrabRefusesOtherClient ==
  [][(/\ start_popup_grab
      /\ pointer.grab # "default"
      /\ ActiveGrab.interface = "popup"
      /\ ClientOf(last'.ret.surface) # ActiveGrab.grab_client)
       => /\ last'.ret.ret = FALSE
          /\ pointer'.grab = pointer.grab
          /\ grabs' = grabs]_vars

C5_Witness ==
  /\ last.op = "start_popup_grab"
  /\ last.ret.ret = FALSE
  /\ pointer.grab # "default"
  /\ ActiveGrab.interface = "popup"
  /\ ActiveGrab.all_popups # <<>>
  /\ ClientOf(last.ret.surface) # ActiveGrab.grab_client

\* C6: destroying the surface of a tracked popup removes exactly that popup
\* from the tracked set; if the set is then empty the popup grab ends, its
\* object is released and the default grab is active; otherwise the popup
\* grab stays active with exactly the remaining popups.
C6_PopupDestroyRemovesItAndEndsEmptyGrab ==
  [][(/\ meta_wayland_surface_resource_destroy_cb
      /\ pointer.grab # "default"
      /\ ActiveGrab.interface = "popup"
      /\ last'.ret.surface \in Range(ActiveGrab.all_popups))
       => LET rest == Without(ActiveGrab.all_popups, last'.ret.surface)
          IN IF rest = <<>>
               THEN /\ pointer'.grab = "default"
                    /\ grabs'[pointer.grab] = FreeGrab
               ELSE /\ pointer'.grab = pointer.grab
                    /\ grabs'[pointer.grab] =
                         [ActiveGrab EXCEPT !.all_popups = rest]]_vars

C6_Witness ==
  /\ last.op = "destroy"
  /\ last.ret.popup
  /\ pointer.grab = "default"
  /\ \A g \in GrabIds : grabs[g] = FreeGrab
  /\ last.ret.surface \notin alive

\* C7: under a popup grab, a button release that leaves no button held while
\* there is no focus resource ends the grab: every tracked popup is sent
\* popup_done exactly once, the tracked set is emptied with the grab object
\* and the default grab becomes active. A button event while the focus
\* resource is the grab owner's is forwarded to it and does not end the grab.
C7_PopupGrabButton ==
  [][(/\ handle_button_event
      /\ pointer.grab # "default"
      /\ ActiveGrab.interface = "popup")
       => /\ (/\ pointer.focus_resource = NULL
              /\ last'.ret = "release"
              /\ pointer'.button_count = 0)
               => /\ \A s \in Range(ActiveGrab.all_popups) :
                       PopupDoneCount(sent', s) = 1
                  /\ grabs'[pointer.grab] = FreeGrab
                  /\ pointer'.grab = "default"
          /\ (/\ pointer.focus_resource # NULL
              /\ pointer.focus_resource = ActiveGrab.grab_client)
               => /\ sent' # <<>>
                  /\ sent'[1] = <<"button", pointer.focus_resource, last'.ret>>
                  /\ pointer'.grab = pointer.grab
                  /\ grabs' = grabs]_vars

C7_Witness ==
  /\ last.op = "button"
  /\ last.ret = "release"
  /\ pointer.grab = "default"
  /\ pointer.button_count = 0
  /\ \E s \in Surfaces : PopupDoneCount(sent, s) = 1
  /\ \A g \in GrabIds : grabs[g] = FreeGrab

\* C8: while a popup grab is active the focus resource is none or belongs to
\* the client that owns the grab, so that the assertion of popup_grab_button
\* never fails.
C8_PopupFocusBelongsToOwner ==
  /\ aborted # "assert:popup_grab_button"
  /\ (pointer.grab # "default" /\ ActiveGrab.interface = "popup")
       => pointer.focus_resource \in {NULL, ActiveGrab.grab_client}

\* ------------------------------------------------------------------------
\* Properties of the input translator
\* ------------------------------------------------------------------------

\* C9: for every button or key code, of N press reports that follow a
\* counter of 0 with no release in between exactly one passes the duplicate
\* filter, the first; of the N release reports that follow exactly one
\* passes, the last, and none before it; when the reporting devices have a
\* stage and the code has a button number, the reports that pass are the
\* events that are queued; and no per-code counter is ever negative.
C9_OnePressOneReleasePerRun ==
  /\ \A c \in Codes : button_count[c] >= 0
  /\ run.shape \in {"pressing", "releasing"} =>
       /\ run.passed_press = 1
       /\ run.first_passed
       /\ button_count[run.code] = run.presses - run.releases
       /\ run.clean => /\ run.queued_press = run.passed_press
                       /\ run.queued_release = run.passed_release
  /\ (run.shape = "releasing" /\ run.releases = run.presses) =>
       /\ run.passed_release = 1
       /\ run.last_passed
  /\ (run.shape = "releasing" /\ run.releases < run.presses) =>
       run.passed_release = 0

C9_Witness ==
  /\ run.shape = "releasing"
  /\ run.presses = MaxHeld
  /\ run.releases = run.presses
  /\ run.clean
  /\ run.queued_press = 1
  /\ run.queued_release = 1
  /\ Len(events) = 1
  /\ events[1].type = "CLUTTER_BUTTON_RELEASE"

AxisOf(record, axis) == IF axis = "dx" THEN record.dx ELSE record.dy

\* C10: starting from a zero accumulator, when the deltas reported on an
\* axis without finish flag all have the same sign and sum in magnitude to
\* k * 10 native units, exactly k discrete scroll steps have been
\* synthesized on that axis, all in the direction of that sign, the
\* accumulator of the axis is 0, and with a stage on the device the k steps
\* are the discrete events queued.
C10_ExactlyKDiscreteScrolls ==
  \A axis \in {"dx", "dy"} :
    LET g == AxisOf(scroll, axis)
        k == fabs(g.total) \div DISCRETE_SCROLL_STEP
    IN (g.same_sign /\ fabs(g.total) % DISCRETE_SCROLL_STEP = 0) =>
         /\ AxisOf(accum, axis) = 0
         /\ g.positive + g.negative = k
         /\ g.total > 0 => g.negative = 0
         /\ g.total < 0 => g.positive = 0
         /\ g.staged => g.queued = k

C10_Witness ==
  /\ last.op = "notify_scroll_continuous"
  /\ scroll.dx.same_sign
  /\ scroll.dx.total = -2 * DISCRETE_SCROLL_STEP
  /\ scroll.dx.negative = 2
  /\ scroll.dx.queued = 2
  /\ accum.dx = 0
  /\ accum.dy # 0
  /\ Len(events) = 2

\* The seat slot stored in a live touch state
TouchSlot(t) == (CHOOSE r \in touch_heap[t] : TRUE).seat_slot

\* C11: for every interleaving of acquiring and releasing touch states (each
\* release applied to a live touch), no two live touch states share a
\* seat_slot, and touch_states[s] holds exactly the live touch whose seat_slot
\* is s (and nothing when there is none).
C11_SlotsAndLiveTouchesAgree ==
  /\ DOMAIN touch_states = 0..(n_alloc_touch_states - 1)
  /\ \A t \in LiveTouches : TouchSlot(t) \in DOMAIN touch_states
  /\ \A t, u \in LiveTouches : t # u => TouchSlot(t) # TouchSlot(u)
  /\ \A s \in DOMAIN touch_states :
       touch_states[s] = {t \in LiveTouches : TouchSlot(t) = s}

\* A release has left a free slot below an occupied one in a grown table
C11_Witness ==
  /\ last.op = "release_touch_state"
  /\ n_alloc_touch_states = 10
  /\ Cardinality(LiveTouches) >= 3
  /\ \E s, r \in DOMAIN touch_states :
       s < r /\ touch_states[s] = {} /\ touch_states[r] # {}

\* C12: acquiring a touch state always returns the lowest free seat-local
\* slot; the table grows by 5 entries, all initially free, and only when every
\* allocated slot is in use.
C12_AcquireTakesLowestFreeSlot ==
  [][meta_seat_native_acquire_touch_state =>
       LET slot == (CHOOSE r \in touch_heap'[last'.ret] : TRUE).seat_slot
           full == \A i \in DOMAIN touch_states : touch_states[i] # {}
       IN /\ slot \in DOMAIN touch_states => touch_states[slot] = {}
          /\ \A j \in 0..(slot - 1) :
               j \in DOMAIN touch_states /\ touch_states[j] # {}
          /\ touch_states'[slot] = {last'.ret}
          /\ n_alloc_touch_states' =
               IF full THEN n_alloc_touch_states + 5
               ELSE n_alloc_touch_states
          /\ DOMAIN touch_states' = 0..(n_alloc_touch_states' - 1)
          /\ \A i \in DOMAIN touch_states' :
               i # slot =>
                 touch_states'[i] =
                   IF i \in DOMAIN touch_states THEN touch_states[i] ELSE {}
  ]_vars

\* An acquire has filled a hole of a table that had grown to ten slots
C12_Witness ==
  /\ last.op = "acquire_touch_state"
  /\ n_alloc_touch_states = 10
  /\ TouchSlot(last.ret) < 5
  /\ touch_states[5] # {}
  /\ touch_states[0] # {last.ret}

\* A step of one of the three role requests
RoleRequest ==
  \/ xdg_shell_get_xdg_surface
  \/ xdg_shell_get_xdg_popup
  \/ subcompositor_get_subsurface

\* C13: role assignment happens at most once per surface: once a role request
\* on a surface has succeeded, every later role request on it during its
\* lifetime posts a protocol error, creates no role object and no window, and
\* leaves the role state as it was.
C13_RoleAssignedAtMostOnce ==
  [][RoleRequest /\ role[last'.ret.surface].assigned
       => last'.ret.error /\ role' = role]_vars

\* C14: the roles are mutually exclusive: a live surface holds at most one of
\* the toplevel, popup and subsurface role objects.
C14_RolesMutuallyExclusive ==
  \A s \in alive : Cardinality(RoleObjects(s)) <= 1

\* C15: no sequence of role requests, role object destructions and surface
\* destructions stops the compositor: destroy_window always finds a window.
C15_RoleRequestsNeverAbort == aborted = "no"

\* C16: in every reachable pointer state, if focus_resource is set then the
\* focus surface is set and focus_resource is the wl_pointer binding of the
\* client that owns the focus surface; the destruction of that binding clears
\* both focus and focus_resource.
C16_FocusResourceBelongsToFocusClient ==
  /\ [](pointer.focus_resource # NULL =>
          /\ pointer.focus # NULL
          /\ pointer.focus_resource = ClientOf(pointer.focus)
          /\ pointer.focus_resource \in pointer.resource_list)
  /\ [][(unbind_resource /\ pointer.focus_resource # NULL
           /\ pointer.focus_resource \notin pointer'.resource_list)
          => pointer'.focus = NULL /\ pointer'.focus_resource = NULL]_vars

\* Both clients are bound and the focus is on B's surface with B's binding,
\* entered by the last call
C16_Witness ==
  /\ pointer.resource_list = Clients
  /\ pointer.focus = "b1"
  /\ pointer.focus_resource = "B"
  /\ \E i \in DOMAIN sent : sent[i] = <<"enter", "B", "b1">>

\* C19: under the default grab, while button_count > 0, a re-evaluation of the
\* focus through the grab's focus handler (on pointer motion or after a
\* surface was destroyed) changes neither focus nor focus_resource and sends
\* no enter and no leave.
C19_HeldButtonFreezesFocus ==
  [][((handle_motion_event \/ meta_wayland_surface_resource_destroy_cb)
        /\ pointer.grab = "default"
        /\ pointer.button_count > 0)
       => /\ pointer'.focus = pointer.focus
          /\ pointer'.focus_resource = pointer.focus_resource
          /\ \A i \in DOMAIN sent' : sent'[i][1] \notin {"enter", "leave"}]_vars

\* With a button held the pointer has moved onto a surface of the other
\* bound client, and the motion went to the frozen focus
C19_Witness ==
  /\ pointer.grab = "default"
  /\ pointer.button_count > 0
  /\ pointer.resource_list = Clients
  /\ pointer.focus = "a1"
  /\ pointer.current = "b1"
  /\ sent = <<<<"motion", "A", "a1">>>>

\* How many messages of a kind a log holds
KindCount(log, kind) == Cardinality({i \in DOMAIN log : log[i][1] = kind})

C17_ToplevelCommitRequestsResize ==
  [][(/\ meta_wayland_surface_commit
      /\ ~sprite
      /\ window # NULL
      /\ pending.buffer # NULL)
       => LET width == BufferWidth(pending.buffer)
              height == BufferHeight(pending.buffer)
          IN out'.resize =
               IF \/ <<width, height>> # window_rect
                  \/ pending.dx # 0
                  \/ pending.dy # 0
                 THEN <<width, height, pending.dx, pending.dy>>
                 ELSE <<>>]_vars

\* The number that the numbering rule as first stated gives a code
StatedNr(button) ==
  CASE button \in {BTN_LEFT, BTN_TOUCH}     -> 1
    [] button \in {BTN_RIGHT, BTN_STYLUS}   -> 3
    [] button \in {BTN_MIDDLE, BTN_STYLUS2} -> 2
    [] OTHER                                -> button - BTN_LEFT + 5

\* The number that the code gives: BTN_STYLUS3 is 8 on every device
NumberedAs(button) ==
  IF button = BTN_STYLUS3 THEN 8 ELSE StatedNr(button)

\* What a numbering rule nr says of one report of a non-tablet device or of
\* one of the named codes: a report that passes the duplicate filter on a
\* device with a stage is queued with the rule's number when that number is in
\* 1..12, and nothing is queued otherwise.
Numbered(nr, named, device, button, state) ==
  (NotifyButton(device, button, state, FALSE)
     /\ (device # "tablet" \/ button \in named))
    => LET forwarded ==
             /\ stage[device]
             /\ PassesCountFilter(
                  update_button_count(button_count[button], state), state)
       IN IF forwarded /\ nr \in 1..12
            THEN /\ Len(events') = 1
                 /\ events'[1].button = nr
                 /\ events'[1].code = button
            ELSE events' = <<>>

\* C18 as stated: BTN_LEFT and BTN_TOUCH give primary (1), BTN_RIGHT and
\* BTN_STYLUS secondary (3), BTN_MIDDLE and BTN_STYLUS2 middle (2), any other
\* code c of a non-tablet device gives c - BTN_LEFT + 5; a code whose number
\* falls outside 1..12 produces no event.
C18_NumberingAsStated ==
  [][\A device \in PointingDevices, button \in NumberedCodes, state \in {0, 1} :
       Numbered(StatedNr(button),
                {BTN_LEFT, BTN_TOUCH, BTN_RIGHT, BTN_STYLUS, BTN_MIDDLE,
                 BTN_STYLUS2},
                device, button, state)]_vars

\* C18 (amended): as stated, except that BTN_STYLUS3 gives 8 on every device
\* and is not numbered c - BTN_LEFT + 5.
C18_NumberingWithStylus3 ==
  [][\A device \in PointingDevices, button \in NumberedCodes, state \in {0, 1} :
       Numbered(NumberedAs(button),
                {BTN_LEFT, BTN_TOUCH, BTN_RIGHT, BTN_STYLUS, BTN_MIDDLE,
                 BTN_STYLUS2, BTN_STYLUS3},
                device, button, state)]_vars

\* A mouse has reported BTN_STYLUS3 and the press was queued as button 8
C18_Witness ==
  /\ last.op = "notify_button"
  /\ Len(events) = 1
  /\ events[1].code = BTN_STYLUS3
  /\ events[1].button = 8
  /\ events[1].source_device = "mouse"

\* C21: from a successful begin_modal until end_modal, focus and
\* focus_resource stay none and no enter, leave, motion or button message is
\* sent to any client, whatever events are dispatched through the grab;
\* end_modal then makes the default grab active and hands the current surface
\* to its focus handler, which focuses it unless a button is held.
C21_ModalGrabIsSilent ==
  /\ [](Interface(World) = "modal" =>
          /\ pointer.focus = NULL
          /\ pointer.focus_resource = NULL
          /\ last.op # "begin_modal" =>
               \A i \in DOMAIN sent :
                 sent[i][1] \notin {"enter", "leave", "motion", "button"})
  /\ [][end_modal =>
          /\ pointer'.grab = "default"
          /\ grabs'[pointer.grab] = FreeGrab
          /\ IF pointer.button_count > 0
               THEN pointer'.focus = NULL /\ pointer'.focus_resource = NULL
               ELSE /\ pointer'.focus = pointer.current
                    /\ pointer'.focus_resource =
                         find_resource_for_surface(pointer.resource_list,
                                                   pointer.current)]_vars

\* A button was pressed during a modal grab with the pointer over a surface
\* of a bound client
C21_Witness ==
  /\ Interface(World) = "modal"
  /\ last.op = "button"
  /\ last.ret = "press"
  /\ pointer.current = "a1"
  /\ "A" \in pointer.resource_list

\* The places of the messages of a kind in a log
Places(log, kind) == {i \in DOMAIN log : log[i][1] = kind}

C23_RepeatedAttachReplacesPending ==
  [][last'.op = "attach" =>
       /\ pending'.buffer = last'.ret[1]
       /\ pending'.dx = last'.ret[2]
       /\ pending'.dy = last'.ret[3]
       /\ pending'.buffer_destroy_listener =
            (IF last'.ret[1] = NULL THEN {} ELSE {last'.ret[1]})
       /\ buffer_ref' = buffer_ref
       /\ out'.release = "-"]_vars

\* an attach of bufB replaced the pending bufA, which was never committed,
\* while another buffer is bound
C23_Witness ==
  /\ last.op = "attach"
  /\ pending.buffer = "bufB"
  /\ pending.buffer_destroy_listener = {"bufB"}
  /\ buffer_ref = "bufA"
  /\ out.release = "-"

\* C24: a commit of a toplevel or subsurface (not the cursor sprite, whose
\* commit takes the place of theirs) binds the pending buffer if an attach
\* was made since the previous commit and leaves the bound buffer alone
\* otherwise; the surface actor is told of an attach exactly when the bound
\* buffer changes, so not when the bound buffer was attached again
C24_CommitBindsAttachedBuffer ==
  [][(/\ meta_wayland_surface_commit
      /\ ~sprite
      /\ (window # NULL \/ subsurface))
       => /\ buffer_ref' = IF pending.newly_attached THEN pending.buffer
                                                     ELSE buffer_ref
          /\ (out'.attach # "-") <=> (buffer_ref' # buffer_ref)
          /\ out'.attach # "-" => out'.attach = buffer_ref'
          /\ (pending.newly_attached /\ pending.buffer = buffer_ref)
               => out'.attach = "-"]_vars

\* a commit of a toplevel that had bufA bound has bound the attached bufB
\* and told the actor of it
C24_Witness ==
  /\ last.op = "commit"
  /\ ~sprite
  /\ window # NULL
  /\ buffer_ref = "bufB"
  /\ out.attach = "bufB"
  /\ out.release = "bufA"

\* x comes before y in seq
ComesBefore(seq, x, y) ==
  \E i \in 1 .. Len(seq) : \E j \in 1 .. Len(seq) :
    i < j /\ seq[i] = x /\ seq[j] = y

Once(seq) == \A i \in 1 .. Len(seq) : \A j \in 1 .. Len(seq) :
               seq[i] = seq[j] => i = j

\* C25: a frame callback is never on both lists nor twice on one; the frame
\* request puts the new callback on the pending queue of the surface, where
\* it stays until the next commit; the commit moves the whole pending queue
\* to the compositor's list, leaves it empty, and keeps the callbacks it
\* moves in the order of their requests; only the destruction of a callback
\* takes it off its list
C25_FrameCallbackOnOneList ==
  /\ [](/\ Once(pending.frame_callback_list \o frame_callbacks)
        /\ last.op = "commit" => pending.frame_callback_list = <<>>)
  /\ [][/\ \A c \in Range(pending.frame_callback_list) :
             \/ c \in Range(pending'.frame_callback_list)
             \/ meta_wayland_surface_commit
                  /\ c \in Range(frame_callbacks')
             \/ destroy_frame_callback /\ c \notin LiveCallbacks'
        /\ \A c \in Range(frame_callbacks) :
             \/ c \in Range(frame_callbacks')
             \/ destroy_frame_callback /\ c \notin LiveCallbacks'
        /\ \A c \in LiveCallbacks' \ LiveCallbacks :
             /\ meta_wayland_surface_frame
             /\ pending'.frame_callback_list =
                  Append(pending.frame_callback_list, c)
        /\ meta_wayland_surface_commit =>
             \A x \in Range(pending.frame_callback_list) :
               \A y \in Range(pending.frame_callback_list) :
                 ComesBefore(pending.frame_callback_list, x, y)
                   => ComesBefore(frame_callbacks', x, y)]_vars

\* a commit has moved two callbacks, requested in the order 2, 1, to the
\* compositor's list, which held a callback of an earlier commit
C25_Witness ==
  /\ last.op = "commit"
  /\ pending.frame_callback_list = <<>>
  /\ Len(frame_callbacks) = 3
  /\ ComesBefore(frame_callbacks, "cb2", "cb1")
  /\ frame_callbacks[3] = "cb3"

\* C26: when the protocol resource of a surface has been destroyed, the
\* surface is off the compositor's surface list, no role object of it is
\* left, and a window it owned was unmanaged by this destruction and is
\* owned no more
C26_DestroyedSurfaceLeavesNothing ==
  [][last'.op = "destroy" =>
       LET s == last'.ret.surface
       IN /\ s \notin alive'
          /\ {k \in RoleKinds : role'[s][k]} = {}
          /\ role'[s].window = NULL
          /\ last'.ret.unmanaged = role[s].window]_vars

\* C27: when the buffer held as pending buffer is destroyed, the pending
\* state becomes that of an attach of no buffer with the same offset, and
\* neither the pending state nor the bound reference nor the listener is
\* left on the destroyed buffer; at all times a pending buffer that is set
\* is one the listener is registered on, so that the unlinking done by
\* attach, commit and surface destruction never touches a destroyed buffer
C27_DestroyedPendingBufferIsDropped ==
  /\ [](pending.buffer # NULL =>
          /\ pending.buffer_destroy_listener = {pending.buffer}
          /\ pending.newly_attached)
  /\ [][last'.op = "buffer_destroy" =>
          /\ pending'.buffer # last'.ret
          /\ buffer_ref' # last'.ret
          /\ last'.ret \notin pending'.buffer_destroy_listener
          /\ pending.buffer = last'.ret =>
               pending' = [pending EXCEPT
                             !.buffer = NULL,
                             !.newly_attached = TRUE,
                             !.buffer_destroy_listener =
                                ListenerAfterAttach(pending, NULL)]]_vars

\* bufA was attached to a toplevel that has bufB bound, and destroyed before
\* the commit
C27_Witness ==
  /\ last.op = "buffer_destroy"
  /\ last.ret = "bufA"
  /\ pending.newly_attached
  /\ pending.buffer = NULL
  /\ pending.dx = 1
  /\ buffer_ref = "bufB"
  /\ window # NULL

\* ------------------------------------------------------------------------
\* Properties of the key repeat
\* ------------------------------------------------------------------------

Armed == repeat.repeat_timer # "none"

\* The step is a key report outside the timer callback that was forwarded
Forwarded(state) ==
  /\ last'.op = "notify_key"
  /\ last'.ret.state = state
  /\ events' # <<>>

\* C28: there is never more than one repeat timer source, and there is one
\* exactly when repeat_timer is set. A forwarded release of any key and a
\* forwarded press of a key that does not repeat, or with repeat disabled,
\* leave no timer; a forwarded press of a repeatable key with repeat enabled
\* leaves the one timer, armed with the delay for the pressed key. The key a
\* timer is armed for is set only by such a press, dispatched outside or
\* inside the timer callback.
C28_OneRepeatTimer ==
  /\ [](/\ repeat.sources <= 1
        /\ Armed <=> repeat.sources = 1)
  /\ [][/\ Forwarded(0) => repeat'.repeat_timer = "none"
        /\ Forwarded(1) =>
             IF xkb_keymap_key_repeats(last'.ret.key) /\ repeat.repeat
               THEN /\ repeat'.repeat_timer = "repeat_delay"
                    /\ repeat'.repeat_key = last'.ret.key
                    /\ repeat'.sources = 1
               ELSE repeat'.repeat_timer = "none"
        /\ (/\ repeat'.repeat_timer # "none"
            /\ ~Armed \/ repeat'.repeat_key # repeat.repeat_key)
             => /\ repeat.repeat
                /\ xkb_keymap_key_repeats(repeat'.repeat_key)
                /\ \/ Forwarded(1) /\ last'.ret.key = repeat'.repeat_key
                   \/ /\ last'.op = "keyboard_repeat"
                      /\ \E i \in 1 .. Len(events') :
                           /\ events'[i].type = "CLUTTER_KEY_PRESS"
                           /\ ~events'[i].repeated
                           /\ events'[i].code = repeat'.repeat_key]_vars

\* the forwarded release of the shift key, held since before the press of
\* the repeating key, has left no timer
C28_Witness ==
  /\ last.op = "notify_key"
  /\ last.ret = [key |-> 42, state |-> 0, passed |-> TRUE]
  /\ events # <<>>
  /\ button_count[30] = 1
  /\ repeat.repeat
  /\ repeat.repeat_key = 30
  /\ repeat.repeat_count = 2
  /\ ~Armed
  /\ repeat.sources = 0

\* C29: a repeated key event comes from a firing of the timer that is armed
\* for its key: the first one after the press from the timer armed with the
\* delay at that press, the later ones from a timer armed with the interval,
\* whatever reports were dispatched inside the timer callback
C29_RepeatsComeFromTheirTimer ==
  [][(last'.op = "keyboard_repeat" /\ last'.ret.repeated) =>
       /\ ~last'.ret.rearmed
       /\ repeat.repeat_count = 1 => repeat.repeat_timer = "repeat_delay"
       /\ repeat.repeat_count > 1 => repeat.repeat_timer = "repeat_interval"]_vars

NotifyOps == {"notify_key", "notify_button", "notify_relative_motion",
              "notify_absolute_motion", "notify_scroll_continuous",
              "notify_discrete_scroll"}

\* C31: a notify operation for a device without stage queues no event and
\* leaves the pointer position of the seat; a key report that passed the
\* duplicate filter also leaves no repeat timer
C31_NoStageNoEvent ==
  [][(last'.op \in NotifyOps /\ \A d \in Devices : ~stage[d]) =>
       /\ events' = <<>>
       /\ pointer_x' = pointer_x
       /\ pointer_y' = pointer_y
       /\ (last'.op = "notify_key" /\ last'.ret.passed)
            => repeat'.repeat_timer = "none"]_vars

\* p is inside the rectangle of monitor
InRect(monitor, p) ==
  /\ monitor.x <= p[1]
  /\ p[1] < monitor.x + monitor.width
  /\ monitor.y <= p[2]
  /\ p[2] < monitor.y + monitor.height

InSomeRect(monitors, p) ==
  \E i \in 1 .. Len(monitors) : InRect(monitors[i], p)

\* C32: when the current position is inside a monitor, the position a
\* report of a pointer device asks for stays as it is exactly when it is
\* inside the rectangle of some monitor, and the position that results is
\* inside the rectangle of some monitor
C32_ConstrainKeepsPointerOnMonitors ==
  [][(/\ last'.op \in {"notify_relative_motion", "notify_absolute_motion"}
      /\ last'.ret.device = "mouse"
      /\ events' # <<>>
      /\ InSomeRect(last'.ret.monitors, <<pointer_x, pointer_y>>))
       => /\ (<<pointer_x', pointer_y'>> = last'.ret.to)
               <=> InSomeRect(last'.ret.monitors, last'.ret.to)
          /\ InSomeRect(last'.ret.monitors, <<pointer_x', pointer_y'>>)]_vars

\* The eight edges that xdg_surface.resize_edge defines
DefinedEdges == {1, 2, 4, 5, 6, 8, 9, 10}

GrabOpRequests == {"xdg_surface_move", "xdg_surface_resize"}

\* C33: a move or resize request begins a window grab operation only if a
\* pointer button is held, the serial of the request is the grab serial of
\* the pointer and the surface of the request holds the pointer focus; a
\* resize request whose edge is none of the eight defined edges begins none.
C33_GrabOpOnlyWhenAuthorized ==
  [][last'.op \in GrabOpRequests /\ last'.ret.began =>
       /\ pointer.button_count > 0
       /\ pointer.grab_serial = {last'.ret.serial}
       /\ pointer.focus = last'.ret.surface
       /\ last'.ret.edges \subseteq DefinedEdges]_vars

\* A resize began for the surface under the held button, and one was
\* dropped for a wrong serial.
C33_Witness ==
  /\ last.op = "xdg_surface_resize"
  /\ last.ret.began
  /\ last.ret.edges = {10}
  /\ pointer.button_count = 1
  /\ pointer.focus = last.ret.surface

\* The finish flag of an axis and its directions, the positive one first
FinishFlagOf(axis) ==
  IF axis = "dx" THEN "CLUTTER_SCROLL_FINISHED_HORIZONTAL"
  ELSE "CLUTTER_SCROLL_FINISHED_VERTICAL"

DirectionsOf(axis) ==
  IF axis = "dx" THEN <<"CLUTTER_SCROLL_RIGHT", "CLUTTER_SCROLL_LEFT">>
  ELSE <<"CLUTTER_SCROLL_DOWN", "CLUTTER_SCROLL_UP">>

\* C34: after a continuous scroll report without the finish flag of an
\* axis, the report has emitted floor(|a + d| / 10) discrete events on that
\* axis, all towards the sign of a + d, and the new accumulator is the
\* signed remainder of a + d modulo 10: below 10 in magnitude, and ten times
\* the signed steps plus the new accumulator is a + d. With the finish flag
\* the accumulator is 0 and the axis has no discrete event. The events are
\* those of a device with a stage; without a stage none is queued.
C34_ScrollStepsAndRemainder ==
  [][last'.op = "notify_scroll_continuous" =>
       \A axis \in {"dx", "dy"} :
         LET a == AxisOf(accum, axis)
             d == AxisOf(last'.ret, axis)
             after == AxisOf(accum', axis)
             towards == Directed(events', {DirectionsOf(axis)[1]})
             back == Directed(events', {DirectionsOf(axis)[2]})
             steps == fabs(a + d) \div DISCRETE_SCROLL_STEP
         IN IF FinishFlagOf(axis) \in last'.ret.finish_flags
              THEN after = 0 /\ towards = 0 /\ back = 0
              ELSE /\ fabs(after) = fabs(a + d) % DISCRETE_SCROLL_STEP
                   /\ fabs(after) < DISCRETE_SCROLL_STEP
                   /\ after * (a + d) >= 0
                   /\ a + d >= 0 => steps * DISCRETE_SCROLL_STEP + after = a + d
                   /\ a + d < 0 => after - steps * DISCRETE_SCROLL_STEP = a + d
                   /\ stage["mouse"] /\ a + d >= 0 =>
                        towards = steps /\ back = 0
                   /\ stage["mouse"] /\ a + d < 0 =>
                        back = steps /\ towards = 0
                   /\ ~ stage["mouse"] => events' = <<>>]_vars

\* A report that carried the horizontal accumulator over a step, with a
\* remainder left, while the vertical axis finished
C34_Witness ==
  /\ last.op = "notify_scroll_continuous"
  /\ last.ret.dx = 16
  /\ last.ret.finish_flags = {"CLUTTER_SCROLL_FINISHED_VERTICAL"}
  /\ accum.dx = 2
  /\ accum.dy = 0
  /\ Len(events) = 3

\* C35: start_popup_grab for a further surface of the client that owns the
\* active popup grab returns TRUE and adds the surface to the tracked popups
\* of the grab, and every tracked popup is a surface of the owning client.
C35_PopupGrabTracksOwnersPopups ==
  [][(/\ start_popup_grab
      /\ pointer.grab # "default"
      /\ ActiveGrab.interface = "popup"
      /\ ClientOf(last'.ret.surface) = ActiveGrab.grab_client
      /\ last'.ret.surface \notin Range(ActiveGrab.all_popups))
       => /\ last'.ret.ret = TRUE
          /\ pointer'.grab = pointer.grab
          /\ Range(grabs'[pointer.grab].all_popups) =
               Range(ActiveGrab.all_popups) \cup {last'.ret.surface}
          /\ \A popup \in Range(grabs'[pointer.grab].all_popups) :
               ClientOf(popup) = grabs'[pointer.grab].grab_client]_vars

\* C36: for every button event queued for a device that is no tablet, the
\* evdev code that the default grab sends for the button number of the event
\* is the code that the device reported.
C36_ButtonCodeRoundTrip ==
  \A i \in 1 .. Len(events) :
    (/\ events[i].type \in {"CLUTTER_BUTTON_PRESS", "CLUTTER_BUTTON_RELEASE"}
     /\ clutter_input_device_get_device_type(events[i].source_device)
          # "CLUTTER_TABLET_DEVICE")
      => default_grab_button_code(events[i].button) = events[i].code

\* C37: a release report of a button or key code whose counter is 0 leaves
\* the counter at 0 and is forwarded: with a stage on the device (and, for a
\* button, a button number in 1..12) the release event of the code is
\* queued. The counter is updated before the stage and range tests: a report
\* whose event is dropped for one of them still changes it.
C37_UnmatchedReleaseIsForwarded ==
  [][/\ \A key \in KeyCodes :
          (last'.op = "notify_key" /\ last'.ret.key = key) =>
            /\ (last'.ret.state = 0 /\ button_count[key] = 0) =>
                 /\ button_count'[key] = 0
                 /\ last'.ret.passed
                 /\ stage["keyboard"] =>
                      events' = << KeyEvent("keyboard", key, 0) >>
            /\ ~ stage["keyboard"] =>
                 /\ events' = <<>>
                 /\ button_count'[key] =
                      update_button_count(button_count[key], last'.ret.state)
     /\ \A device \in PointingDevices, button \in ButtonCodes,
           state \in {0, 1}, take \in BOOLEAN :
          (/\ last'.op = "notify_button"
           /\ button_count'[button] # button_count[button] \/ state = 0
           /\ NotifyButton(device, button, state, take)) =>
            /\ (state = 0 /\ button_count[button] = 0) =>
                 /\ button_count'[button] = 0
                 /\ (stage[device] /\ ButtonNr(device, button) \in 1..12) =>
                      /\ Len(events') = 1
                      /\ events'[1].type = "CLUTTER_BUTTON_RELEASE"
                      /\ events'[1].code = button
            /\ (~ stage[device] \/ ButtonNr(device, button) \notin 1..12) =>
                 /\ events' = <<>>
                 /\ state = 1 => button_count'[button] = button_count[button] + 1
                 /\ (state = 0 /\ button_count[button] > 0) =>
                      button_count'[button] = button_count[button] - 1]_vars

\* The release of a key that no press was counted for has been queued
C37_Witness ==
  /\ last.op = "notify_key"
  /\ last.ret.state = 0
  /\ last.ret.passed
  /\ events = << KeyEvent("keyboard", last.ret.key, 0) >>
  /\ Held = 0
  /\ run = NoRun
  /\ repeat.repeat_count = 0

\* The pointer binding of the client of the focused surface is the one the
\* focus was given to.
BindingUnchanged ==
  find_resource_for_surface(pointer.resource_list, pointer.focus)
    = pointer.focus_resource

\* C38: meta_wayland_pointer_set_focus with the surface that holds the focus,
\* while the pointer binding of its client is unchanged, sends nothing and
\* changes nothing; and the release of the last button over the focused
\* surface, which makes that call, sends the button message only and leaves
\* focus, focus_resource, focus_serial and the focus listener as they were.
C38_SetFocusIdempotent ==
  /\ []((BindingUnchanged /\ pointer.focus \in alive \cup {NULL}) =>
          meta_wayland_pointer_set_focus(World, pointer.focus) = World)
  /\ [][(/\ last'.op = "button"
          /\ last'.ret = "release"
          /\ pointer'.button_count = 0
          /\ pointer.current = pointer.focus
          /\ BindingUnchanged)
         => /\ Places(sent', "leave") = {}
            /\ Places(sent', "enter") = {}
            /\ Places(sent', "modifiers") = {}
            /\ pointer'.focus = pointer.focus
            /\ pointer'.focus_resource = pointer.focus_resource
            /\ pointer'.focus_listener = pointer.focus_listener
            /\ focus_serial' = focus_serial]_vars

\* The last button was released over the focused surface of a bound client
C38_Witness ==
  /\ last.op = "button"
  /\ last.ret = "release"
  /\ pointer.button_count = 0
  /\ pointer.focus \in alive
  /\ pointer.current = pointer.focus
  /\ pointer.focus_resource = ClientOf(pointer.focus)
  /\ sent = << <<"button", pointer.focus_resource, "release">> >>
  /\ focus_serial # display_serial

\* The surface is not the cursor sprite and has no window and no subsurface
\* object.
NoRoleYet == ~ sprite /\ window = NULL /\ ~ subsurface

\* C39: the commit of a surface without role leaves the bound buffer and the
\* surface actor as they were and makes no renderer call (no attach, no
\* damage), and still clears the pending state: the pending state after it
\* is that of a new surface, so a buffer and damage committed then are
\* applied by no later commit unless the client attaches them again.
C39_CommitWithoutRoleDropsPending ==
  [][(last'.op = "commit" /\ NoRoleYet) =>
       /\ buffer_ref' = buffer_ref
       /\ actor' = actor
       /\ out' = NoOut
       /\ pending' = InitPending]_vars

\* A surface without role was committed: its frame callback went to the
\* compositor, no buffer is bound and nothing is pending.
C39_Witness ==
  /\ last.op = "commit"
  /\ NoRoleYet
  /\ ~ xdg_surface
  /\ buffer_ref = NULL
  /\ actor.buffer = NULL
  /\ out = NoOut
  /\ frame_callbacks # <<>>
  /\ pending = InitPending

\* C40: while a popup grab is active, every tracked popup is a live surface
\* that still has its popup role object, whatever the clients do.
C40_TrackedPopupsKeepTheirRole ==
  (pointer.grab # "default" /\ ActiveGrab.interface = "popup") =>
    \A popup \in Range(ActiveGrab.all_popups) :
      /\ popup \in alive
      /\ role[popup].xdg_popup

====
